---- MODULE Spec2Model ----
(***************************************************************************)
(* Rune-X recognition pipeline: the OCR fallback chain, the translation    *)
(* fallback chain, the single-upload process route, the batch driver and   *)
(* the Glyph Store they share.                                             *)
(*                                                                         *)
(* Confidences are integers in hundredths (0.90 is 90).  A text is a       *)
(* sequence of characters; an error message is a sequence of its parts,    *)
(* the empty sequence standing for "no message".                           *)
(***************************************************************************)
EXTENDS Integers, Sequences, FiniteSets, TLC

VARIABLES env, ocr, tr, store, run, drv, mg, nr

vars == <<env, ocr, tr, store, run, drv, mg, nr>>

----------------------------------------------------------------------------
(* Bounds of the model *)

\* longest text a backend response carries
MaxTextLen == 2

----------------------------------------------------------------------------
(* Texts and messages *)

Chars == {" ", "x"}

Texts == UNION {[1..n -> Chars] : n \in 0..MaxTextLen}

IsSpace(c) == c = " "

RECURSIVE TrimStart(_)
TrimStart(s) ==
    IF Len(s) > 0 /\ IsSpace(Head(s)) THEN TrimStart(Tail(s)) ELSE s

RECURSIVE TrimEnd(_)
TrimEnd(s) ==
    IF Len(s) > 0 /\ IsSpace(s[Len(s)])
    THEN TrimEnd(SubSeq(s, 1, Len(s) - 1))
    ELSE s

\* String.prototype.trim
Trim(s) == TrimEnd(TrimStart(s))

\* JavaScript truthiness of a string
Truthy(s) == Len(s) > 0

NoMsg == <<>>

----------------------------------------------------------------------------
(* Process environment *)

\* geminiKey: GOOGLE_GEMINI_API_KEY is set
\* devFallback: NODE_ENV is development and ENABLE_OCR_FALLBACK is true
Envs == [geminiKey : BOOLEAN, devFallback : BOOLEAN]

----------------------------------------------------------------------------
(* Transport layer: what one httpsRequest can come to *)

\* kind "ok": a 2xx response whose body parses, carrying the text found at
\*            candidates[0].content.parts[0].text ("" when the shape differs)
\* kind "badjson": a 2xx response whose body does not parse
\* kind "404", "429": those statuses
\* kind "err": any other non-2xx status; detail is the message of the error
\*             body, "" when the body carries none
\* kind "throw": the request rejects with a transport error
\* kind "timeout": the request times out
Ok(t) == [kind |-> "ok", text |-> t, detail |-> ""]

Fail(k, d) == [kind |-> k, text |-> <<>>, detail |-> d]

Responses ==
    {Ok(t) : t \in Texts}
      \cup {Fail(k, "") : k \in {"badjson", "404", "429", "err", "throw", "timeout"}}
      \cup {Fail("err", "quota exceeded")}

\* the Error httpsRequest or response.json() rejects with
TransportError(resp) ==
    CASE resp.kind = "timeout" -> <<"Request timeout">>
      [] resp.kind = "throw"   -> <<"socket hang up">>
      [] resp.kind = "badjson" -> <<"Unexpected token in JSON">>
      [] OTHER                 -> NoMsg

Throws(resp) == resp.kind \in {"throw", "timeout", "badjson"}

ResponseOk(resp) == resp.kind = "ok"

----------------------------------------------------------------------------
(* OCR orchestrator *)

\* apiConfigs of extractTextWithGemini
NumOcrConfigs == 4

GeminiConfidence == 90

OCRResult(t, c, m, e) == [text |-> t, confidence |-> c, method |-> m, error |-> e]

NoResult == OCRResult(<<>>, 0, "pending", NoMsg)

\* a loop body that gives up at a rate limit instead of going on
GeminiStepStopsAt429(resp, lastError) ==
    CASE Throws(resp) ->
           [ret |-> FALSE, err |-> TransportError(resp), result |-> NoResult]
      [] resp.kind = "404" ->
           [ret |-> FALSE, err |-> lastError, result |-> NoResult]
      [] resp.kind = "429" ->
           [ret |-> TRUE, err |-> lastError,
            result |-> OCRResult(<<>>, 0, "gemini", <<"Rate limit exceeded">>)]
      [] resp.kind = "err" ->
           [ret |-> FALSE,
            err |-> <<"Gemini API error: ",
                      IF resp.detail # "" THEN resp.detail ELSE "Status 500">>,
            result |-> NoResult]
      [] OTHER ->
           IF Truthy(resp.text)
           THEN [ret |-> TRUE, err |-> lastError,
                 result |-> OCRResult(Trim(resp.text), GeminiConfidence, "gemini", NoMsg)]
           ELSE [ret |-> FALSE, err |-> lastError, result |-> NoResult]

\* What one pass of the loop body does with the response of a configuration:
\* ret = TRUE returns result, ret = FALSE continues with lastError = err.
GeminiStep(resp, lastError) ==
    CASE Throws(resp) ->
           [ret |-> FALSE, err |-> TransportError(resp), result |-> NoResult]
      [] resp.kind \in {"404", "429"} ->
           [ret |-> FALSE, err |-> lastError, result |-> NoResult]
      [] resp.kind = "err" ->
           [ret |-> FALSE,
            err |-> <<"Gemini API error: ",
                      IF resp.detail # "" THEN resp.detail ELSE "Status 500">>,
            result |-> NoResult]
      [] OTHER ->
           IF Truthy(resp.text)
           THEN [ret |-> TRUE, err |-> lastError,
                 result |-> OCRResult(Trim(resp.text), GeminiConfidence, "gemini", NoMsg)]
           ELSE [ret |-> FALSE, err |-> lastError, result |-> NoResult]

\* the result after the loop ran out of configurations
GeminiExhaustedResult(lastError) ==
    OCRResult(<<>>, 0, "gemini",
              IF lastError # NoMsg THEN lastError ELSE <<"Unknown Gemini API error">>)

\* the result of extractTextFromImage when no method produced text
AllMethodsFailed ==
    OCRResult(<<>>, 0, "fallback",
              <<"All OCR methods failed. Please ensure the image is clear and contains readable text.">>)

OcrIdle ==
    [pc |-> "idle", i |-> 0, calls |-> <<>>, resps |-> <<>>, lastError |-> NoMsg,
     gem |-> NoResult, result |-> NoResult, out |-> "none", thrown |-> NoMsg]

\* extractTextFromImage builds its methods list: Gemini only with a key
ExtractStart ==
    /\ ocr.pc = "start"
    /\ ocr' = [ocr EXCEPT !.pc = IF env.geminiKey THEN "gemini" ELSE "allFailed"]
    /\ UNCHANGED <<env, tr, store, run, drv, mg, nr>>

\* extractTextWithGemini up to its loop: the image file is read
GeminiEnter ==
    /\ ocr.pc = "gemini"
    /\ \E readable \in BOOLEAN :
         ocr' = [ocr EXCEPT !.pc = IF readable THEN "loop" ELSE "allFailed",
                            !.i = 1]
    /\ UNCHANGED <<env, tr, store, run, drv, mg, nr>>

\* one pass of the loop over apiConfigs
GeminiTry ==
    /\ ocr.pc = "loop"
    /\ ocr.i <= NumOcrConfigs
    /\ \E resp \in Responses :
         LET s == GeminiStep(resp, ocr.lastError) IN
           ocr' = [ocr EXCEPT !.calls = Append(@, ocr.i),
                              !.resps = Append(@, resp),
                              !.lastError = s.err,
                              !.i = IF s.ret THEN @ ELSE @ + 1,
                              !.gem = IF s.ret THEN s.result ELSE @,
                              !.pc = IF s.ret THEN "methodDone" ELSE @]
    /\ UNCHANGED <<env, tr, store, run, drv, mg, nr>>

\* the loop ran out of configurations
GeminiExhausted ==
    /\ ocr.pc = "loop"
    /\ ocr.i > NumOcrConfigs
    /\ ocr' = [ocr EXCEPT !.gem = GeminiExhaustedResult(ocr.lastError),
                          !.pc = "methodDone"]
    /\ UNCHANGED <<env, tr, store, run, drv, mg, nr>>

\* extractTextFromImage looks at the method's result
MethodDone ==
    /\ ocr.pc = "methodDone"
    /\ ocr' = [ocr EXCEPT !.pc = IF Truthy(ocr.gem.text) THEN "post" ELSE "allFailed"]
    /\ UNCHANGED <<env, tr, store, run, drv, mg, nr>>

\* postProcessWithAncientChineseModels returns the text it was given whatever
\* the auxiliary model answers
\* an auxiliary pass that corrects the text when the model answers
PostProcessTextCorrects(text, outcome) ==
    IF outcome = "ok" THEN Append(text, "x") ELSE text

PostProcessText(text, outcome) == text

PostProcessed(result, improved) ==
    IF Truthy(improved) /\ improved # result.text
    THEN [result EXCEPT !.text = improved,
                        !.confidence = IF @ + 5 < 95 THEN @ + 5 ELSE 95]
    ELSE result

PostProcess ==
    /\ ocr.pc = "post"
    /\ \E outcome \in {"ok", "fail", "timeout"} :
         ocr' = [ocr EXCEPT
                   !.result = PostProcessed(ocr.gem, PostProcessText(ocr.gem.text, outcome)),
                   !.pc = "extracted"]
    /\ UNCHANGED <<env, tr, store, run, drv, mg, nr>>

ExtractFailed ==
    /\ ocr.pc = "allFailed"
    /\ ocr' = [ocr EXCEPT !.result = AllMethodsFailed, !.pc = "extracted"]
    /\ UNCHANGED <<env, tr, store, run, drv, mg, nr>>

\* the message processAncientText throws for an extraction without text
ExtractionErrorMessage(result) ==
    <<"Failed to extract text from image.">>
      \o (IF result.error # NoMsg THEN <<" ">> \o result.error ELSE <<>>)

\* a verdict that carries on whatever the extraction returned
ExtractionVerdictCarriesOn(result, devFallback) == "text"

\* Step 1 of processAncientText: "text" carries on with the extracted text,
\* "fallback-dev" returns the sample result, "throw" raises the message
ExtractionVerdict(result, devFallback) ==
    IF Truthy(result.text) THEN "text"
    ELSE IF devFallback THEN "fallback-dev"
    ELSE "throw"

PipelineExtractCheck ==
    /\ ocr.pc = "extracted"
    /\ LET v == ExtractionVerdict(ocr.result, env.devFallback) IN
         ocr' = [ocr EXCEPT !.out = v,
                            !.thrown = IF v = "throw"
                                       THEN ExtractionErrorMessage(ocr.result)
                                       ELSE NoMsg,
                            !.pc = "done"]
    /\ UNCHANGED <<env, tr, store, run, drv, mg, nr>>

NextOCR ==
    \/ ExtractStart
    \/ GeminiEnter
    \/ GeminiTry
    \/ GeminiExhausted
    \/ MethodDone
    \/ PostProcess
    \/ ExtractFailed
    \/ PipelineExtractCheck

----------------------------------------------------------------------------
(* Glyph matches *)

\* the sample text of the development fallback
DaoFaZiRan == <<"dao", "fa", "zi", "ran">>

\* A meaning or description is a string; kind says which of the markers the
\* code searches for it contains, text is the rest of it.
Real(t) == [kind |-> "real", text |-> t]

\* a null or undefined string
Null == [kind |-> "null", text |-> ""]

\* the sentinel of a character found in the store without a usable meaning
UnknownCharacter ==
    [kind |-> "Unknown character", text |-> " (may need to be added to database)"]

\* the sentinel of a character absent from the store without a meaning
MeaningNotAvailable ==
    [kind |-> "not available", text |-> "Character recognized but meaning"]

\* the description the process route stores for a glyph without a real meaning
CharacterPlaceholder(sym) == [kind |-> "Character:", text |-> sym]

\* the empty string
EmptyString == [kind |-> "real", text |-> ""]

\* !m: a null or undefined string, or the empty one
IsNull(m) == m.kind = "null" \/ m = EmptyString

\* String.prototype.includes for the markers the code looks for
IncludesCharacterColon(m) == m.kind = "Character:"

IncludesUnknownCharacter(m) == m.kind = "Unknown character"

IncludesUnknown(m) == m.kind = "Unknown character"

IncludesNotAvailable(m) == m.kind = "not available"

\* the placeholder box matchGlyphs gives the character at index i
BoundingBox(i) == [x |-> i * 60 + 10, y |-> 20, width |-> 50, height |-> 50]

\* a match whose sentinel meanings are left out
GlyphMatchWithoutSentinel(sym, conf, pos, meaning) ==
    [symbol |-> sym, confidence |-> conf, position |-> pos,
     meaning |-> IF meaning.kind \in {"Unknown character", "not available"}
                 THEN [kind |-> "null", text |-> ""] ELSE meaning,
     boundingBox |-> BoundingBox(pos)]

GlyphMatch(sym, conf, pos, meaning) ==
    [symbol |-> sym, confidence |-> conf, position |-> pos, meaning |-> meaning,
     boundingBox |-> BoundingBox(pos)]

----------------------------------------------------------------------------
(* Translation generator *)

\* apiConfigs of generateTranslation
NumTranslationConfigs == 4

TranslationConfidence == 88

PhraseConfidence == 90

GenericCap == 85

GenericDefault == 70

\* a confidence that is a mean: num / den hundredths
Conf(n, d) == [num |-> n, den |-> d]

Apology ==
    "Unable to extract text from image. Please ensure the image is clear and contains readable text."

\* commonTranslations
commonTranslations ==
    (<<"dao", "fa", "zi", "ran">> :> "The Tao follows nature")
      @@ (<<"tian", "ren", "he", "yi">> :> "Heaven and humanity are one")
      @@ (<<"dao", "de", "jing">> :> "Tao Te Ching")
      @@ (<<"ren", "yi", "li", "zhi">> :> "Benevolence, righteousness, propriety, and wisdom")
      @@ (<<"dao", "de">> :> "Virtue and morality")
      @@ (<<"ren", "yi">> :> "Benevolence and righteousness")
      @@ (<<"zhi", "hui">> :> "Wisdom and intelligence")

RECURSIVE SumConfidence(_)
SumConfidence(glyphs) ==
    IF glyphs = <<>> THEN 0
    ELSE Head(glyphs).confidence + SumConfidence(Tail(glyphs))

\* the mean without its cap
GenericConfidenceUncapped(glyphs) ==
    IF Len(glyphs) > 0
    THEN Conf(SumConfidence(glyphs), Len(glyphs))
    ELSE Conf(GenericDefault, 1)

\* Math.min(avgConfidence, 0.85) of the generic translation
GenericConfidence(glyphs) ==
    IF Len(glyphs) > 0
    THEN IF SumConfidence(glyphs) <= GenericCap * Len(glyphs)
         THEN Conf(SumConfidence(glyphs), Len(glyphs))
         ELSE Conf(GenericCap, 1)
    ELSE Conf(GenericDefault, 1)

\* a fallback that goes to the template without looking at the phrase table
FallbackTranslationNoTable(text, glyphs) ==
    [translation |-> <<"Translation of ", text, " Individual characters: ",
                       [k \in 1..Len(glyphs) |->
                          <<glyphs[k].symbol, glyphs[k].meaning>>]>>,
     confidence |-> GenericConfidence(glyphs), source |-> "generic"]

\* the translation when no backend answered: the phrase table, then the template
FallbackTranslation(text, glyphs) ==
    IF text \in DOMAIN commonTranslations
    THEN [translation |-> <<commonTranslations[text]>>,
          confidence |-> Conf(PhraseConfidence, 1), source |-> "table"]
    ELSE [translation |-> <<"Translation of ", text, " Individual characters: ",
                            [k \in 1..Len(glyphs) |->
                               <<glyphs[k].symbol, glyphs[k].meaning>>]>>,
          confidence |-> GenericConfidence(glyphs), source |-> "generic"]

\* What one pass of the loop body does with the response of a configuration
\* a step of the chain that lets the exception of a request leave the call
TranslationStepRethrows(resp) ==
    IF Throws(resp)
    THEN [ret |-> TRUE,
          result |-> [translation |-> <<>>, confidence |-> Conf(0, 1),
                      source |-> "thrown"]]
    ELSE IF ResponseOk(resp) /\ Truthy(resp.text)
    THEN [ret |-> TRUE,
          result |-> [translation |-> Trim(resp.text),
                      confidence |-> Conf(TranslationConfidence, 1),
                      source |-> "backend"]]
    ELSE [ret |-> FALSE, result |-> <<>>]

TranslationStep(resp) ==
    IF ResponseOk(resp) /\ Truthy(resp.text)
    THEN [ret |-> TRUE,
          result |-> [translation |-> Trim(resp.text),
                      confidence |-> Conf(TranslationConfidence, 1),
                      source |-> "backend"]]
    ELSE [ret |-> FALSE, result |-> <<>>]

TrIdle ==
    [pc |-> "idle", text |-> <<>>, glyphs |-> <<>>, i |-> 0, calls |-> <<>>,
     resps |-> <<>>, result |-> <<>>]

\* generateTranslation up to its loop
\* a translation that looks for the key before it looks at the text
TranslationPathKeyFirst(text, key) ==
    IF key THEN "loop" ELSE IF ~Truthy(text) THEN "apology" ELSE "fallback"

\* the order of the tests at the head of generateTranslation
TranslationPath(text, key) ==
    IF ~Truthy(text) THEN "apology" ELSE IF key THEN "loop" ELSE "fallback"

TranslateStart ==
    /\ tr.pc = "start"
    /\ tr' = CASE TranslationPath(tr.text, env.geminiKey) = "apology" ->
                    [tr EXCEPT !.pc = "done",
                               !.result = [translation |-> <<Apology>>,
                                           confidence |-> Conf(0, 1),
                                           source |-> "apology"]]
               [] TranslationPath(tr.text, env.geminiKey) = "loop" ->
                    [tr EXCEPT !.pc = "loop", !.i = 1]
               [] OTHER -> [tr EXCEPT !.pc = "fallback"]
    /\ UNCHANGED <<env, ocr, store, run, drv, mg, nr>>

\* one pass of the loop over apiConfigs
TranslateTry ==
    /\ tr.pc = "loop"
    /\ tr.i <= NumTranslationConfigs
    /\ \E resp \in Responses :
         LET s == TranslationStep(resp) IN
           tr' = [tr EXCEPT !.calls = Append(@, tr.i),
                            !.resps = Append(@, resp),
                            !.i = IF s.ret THEN @ ELSE @ + 1,
                            !.result = IF s.ret THEN s.result ELSE @,
                            !.pc = IF s.ret THEN "done" ELSE @]
    /\ UNCHANGED <<env, ocr, store, run, drv, mg, nr>>

\* the loop ran out of configurations
TranslateExhausted ==
    /\ tr.pc = "loop"
    /\ tr.i > NumTranslationConfigs
    /\ tr' = [tr EXCEPT !.pc = "fallback"]
    /\ UNCHANGED <<env, ocr, store, run, drv, mg, nr>>

TranslateFallback ==
    /\ tr.pc = "fallback"
    /\ tr' = [tr EXCEPT !.result = FallbackTranslation(tr.text, tr.glyphs),
                        !.pc = "done"]
    /\ UNCHANGED <<env, ocr, store, run, drv, mg, nr>>

NextTranslate ==
    \/ TranslateStart
    \/ TranslateTry
    \/ TranslateExhausted
    \/ TranslateFallback

----------------------------------------------------------------------------
(* Glyph Store and the records of an upload *)

\* uploads in the store
NumUploads == 2

\* store operations that may throw for a reason of the store's own
MaxFaults == 1

DefaultScript == "Traditional Chinese"

Min(S) == CHOOSE x \in S : \A y \in S : x <= y

\* a maximum that is always its second argument
SecondOnly(a, b) == b

Max2(a, b) == IF a >= b THEN a ELSE b

\* a store of n pending uploads and nothing else; faults is the number of
\* operations that may still throw for a reason of the store's own
StoreOf(n, faults) ==
    [uploads |-> [u \in 1..n |-> [status |-> "PENDING", scriptType |-> ""]],
     scripts |-> <<>>, glyphs |-> <<>>, matches |-> <<>>, translations |-> <<>>,
     versions |-> <<>>, faults |-> faults]

EmptyStore == StoreOf(0, 0)

UploadIds(st) == DOMAIN st.uploads

\* db.ancientScript.findFirst({ where: { name } }): its id, 0 for null
FindScript(st, name) ==
    LET S == {k \in DOMAIN st.scripts : st.scripts[k].name = name}
    IN  IF S = {} THEN 0 ELSE Min(S)

\* AncientScript.name is @unique: a second create of a name is refused
ScriptNameTaken(st, name) == FindScript(st, name) # 0

\* db.glyph.findFirst({ where: { symbol, scriptId } })
FindGlyph(st, symbol, scriptId) ==
    LET S == {k \in DOMAIN st.glyphs :
                st.glyphs[k].symbol = symbol /\ st.glyphs[k].scriptId = scriptId}
    IN  IF S = {} THEN 0 ELSE Min(S)

\* db.glyph.findFirst({ where: { symbol } })
FindGlyphBySymbol(st, symbol) ==
    LET S == {k \in DOMAIN st.glyphs : st.glyphs[k].symbol = symbol}
    IN  IF S = {} THEN 0 ELSE Min(S)

SetStatus(st, u, status) == [st EXCEPT !.uploads[u].status = status]

----------------------------------------------------------------------------
(* Glyph matcher *)

IsWhitespace(c) == c = " "

Punctuation ==
    {".", ",", ";", ":", "!", "?", "-", "_", "=", "+", "(", ")", "[", "]", "{", "}"}

\* Array.from(extractedText.replace(/\s+/g, ''))
StripWhitespace(text) == SelectSeq(text, LAMBDA c : ~IsWhitespace(c))

\* g.name.toLowerCase().includes(char.toLowerCase()) for a one-character name
NameIncludes(name, char) == ~IsNull(name) /\ name.text = char

\* the exact match, then the relaxed one; 0 when the store has neither
MatchedGlyph(dbGlyphs, char) ==
    LET exact == {k \in DOMAIN dbGlyphs : dbGlyphs[k].symbol = char}
        relaxed == {k \in DOMAIN dbGlyphs :
                      \/ dbGlyphs[k].symbol = char
                      \/ NameIncludes(dbGlyphs[k].name, char)}
    IN  IF exact # {} THEN Min(exact)
        ELSE IF relaxed # {} THEN Min(relaxed)
        ELSE 0

IsPlaceholder(dbMeaning) ==
    \/ IsNull(dbMeaning)
    \/ IncludesCharacterColon(dbMeaning)
    \/ IncludesUnknown(dbMeaning)
    \/ IncludesNotAvailable(dbMeaning)

FoundConfidence == 75

AiConfidence == 85

LastResortConfidence == 70

RecognizedConfidence == 60

\* a matcher without the single-character lookup
MatchOneWithoutLookup(char, i, dbGlyphs, ai, lr, key) ==
    LET k == MatchedGlyph(dbGlyphs, char)
        hasAi == char \in DOMAIN ai /\ ~IsNull(ai[char])
    IN  IF k # 0
        THEN LET g == dbGlyphs[k]
                 dbMeaning == IF ~IsNull(g.description) THEN g.description ELSE g.name
                 usable == ~IsNull(dbMeaning) /\ ~IsPlaceholder(dbMeaning)
             IN  GlyphMatch(char,
                            IF hasAi THEN AiConfidence
                            ELSE IF usable
                            THEN Max2(IF g.confidence # 0 THEN g.confidence
                                      ELSE FoundConfidence, FoundConfidence)
                            ELSE RecognizedConfidence,
                            i,
                            IF hasAi THEN ai[char]
                            ELSE IF usable THEN dbMeaning
                            ELSE UnknownCharacter)
        ELSE IF hasAi
        THEN GlyphMatch(char, AiConfidence, i, ai[char])
        ELSE GlyphMatch(char, RecognizedConfidence, i, MeaningNotAvailable)

\* the match of the character at index i (from 0) of the stripped text;
\* ai holds the bulk meanings, lr the answers of the single-character lookup
MatchOne(char, i, dbGlyphs, ai, lr, key) ==
    LET k == MatchedGlyph(dbGlyphs, char)
        hasAi == char \in DOMAIN ai /\ ~IsNull(ai[char])
    IN  IF k # 0
        THEN LET g == dbGlyphs[k]
                 dbMeaning == IF ~IsNull(g.description) THEN g.description ELSE g.name
                 usable == ~IsNull(dbMeaning) /\ ~IsPlaceholder(dbMeaning)
             IN  GlyphMatch(char,
                            IF hasAi THEN AiConfidence
                            ELSE IF usable
                            THEN Max2(IF g.confidence # 0 THEN g.confidence
                                      ELSE FoundConfidence, FoundConfidence)
                            ELSE RecognizedConfidence,
                            i,
                            IF hasAi THEN ai[char]
                            ELSE IF usable THEN dbMeaning
                            ELSE UnknownCharacter)
        ELSE IF hasAi
        THEN GlyphMatch(char, AiConfidence, i, ai[char])
        ELSE IF key /\ char \in DOMAIN lr
        THEN GlyphMatch(char, LastResortConfidence, i, lr[char])
        ELSE GlyphMatch(char, RecognizedConfidence, i, MeaningNotAvailable)

\* a loop that numbers the matches in the order of output
RECURSIVE MatchFromDense(_, _, _, _, _, _)
MatchFromDense(chars, i, dbGlyphs, ai, lr, key) ==
    IF i > Len(chars) THEN <<>>
    ELSE (IF chars[i] \in Punctuation THEN <<>>
          ELSE <<MatchOne(chars[i],
                          Len(SelectSeq(SubSeq(chars, 1, i - 1),
                                        LAMBDA c : c \notin Punctuation)),
                          dbGlyphs, ai, lr, key)>>)
           \o MatchFromDense(chars, i + 1, dbGlyphs, ai, lr, key)

RECURSIVE MatchFrom(_, _, _, _, _, _)
MatchFrom(chars, i, dbGlyphs, ai, lr, key) ==
    IF i > Len(chars) THEN <<>>
    ELSE (IF chars[i] \in Punctuation THEN <<>>
          ELSE <<MatchOne(chars[i], i - 1, dbGlyphs, ai, lr, key)>>)
           \o MatchFrom(chars, i + 1, dbGlyphs, ai, lr, key)

\* matchGlyphs
MatchGlyphs(text, dbGlyphs, ai, lr, key) ==
    IF ~Truthy(text) THEN <<>>
    ELSE MatchFrom(StripWhitespace(text), 1, dbGlyphs, ai, lr, key)

\* one call of matchGlyphs: its arguments, the store's glyphs and what the
\* semantic service answers, then its result
MgIdle ==
    [pc |-> "idle", text |-> <<>>, dbGlyphs |-> <<>>, ai |-> <<>>, lr |-> <<>>,
     key |-> FALSE, result |-> <<>>,
     n |-> 0, meanings |-> {}, bulk |-> "none", i |-> 0, batches |-> <<>>]

\* the texts matchGlyphs is called with
MatchTexts ==
    {<<>>, DaoFaZiRan, <<"dao", ",", " ", "fa">>, <<" ", "fa", "!", "dao", "dao">>}

\* rows of the store's glyph table: one of the symbol dao, with and without
\* a name, with each kind of description and stored confidences below the
\* floor, above it and out of range; one of another symbol whose name is fa
StoredRows ==
    {[scriptId |-> 1, symbol |-> "dao", name |-> nm, description |-> d, confidence |-> c] :
       nm \in {Null, Real("dao")},
       d \in {Null, EmptyString, Real("way"), CharacterPlaceholder("dao"),
              UnknownCharacter, MeaningNotAvailable},
       c \in {0, 50, 95, 150}}
      \cup {[scriptId |-> 1, symbol |-> "zi", name |-> Real("fa"), description |-> d,
              confidence |-> c] :
               d \in {Null, Real("law")}, c \in {50, 95}}

MatchStores ==
    {<<>>} \cup {<<g>> : g \in StoredRows}
      \cup {<<g, h>> : g \in {x \in StoredRows : x.symbol = "zi"},
                       h \in {x \in StoredRows : x.symbol = "dao" /\ x.confidence = 95}}

\* what getCharacterMeanings returns, and the characters the single-character
\* lookup answers for with a meaning
MeaningAnswers ==
    {<<>>, "dao" :> Real("AI meaning"), "dao" :> EmptyString,
     [c \in {"dao", "fa", "zi", "ran"} |-> Real("AI meaning")]}

LookupAnswers ==
    {<<>>, "fa" :> Real("lookup meaning"),
     [c \in {"dao", "fa", "zi", "ran"} |-> Real("lookup meaning")]}

\* matchGlyphs is called and returns
\* a service that is asked whether or not a key is set
CharacterMeaningsWithoutKeyCheck(key, answer) == answer

\* getCharacterMeanings: the answer of the semantic service when a key is
\* set, and no meanings, without a request, when none is
CharacterMeanings(key, answer) == IF key THEN answer ELSE <<>>

MatchCall ==
    /\ mg.pc = "start"
    /\ mg' = [mg EXCEPT !.result = MatchGlyphs(mg.text, mg.dbGlyphs,
                                               CharacterMeanings(mg.key, mg.ai),
                                               mg.lr, mg.key),
                        !.pc = "done"]
    /\ UNCHANGED <<env, ocr, tr, store, run, drv, nr>>

\* the script name processAncientText reports: that of the first stored glyph
\* carrying one of the matched symbols, else the default
ScriptTypeOf(st, glyphs) ==
    LET symbols == {glyphs[k].symbol : k \in DOMAIN glyphs}
        rows == {k \in DOMAIN st.glyphs : st.glyphs[k].symbol \in symbols}
    IN  IF rows = {} THEN DefaultScript
        ELSE st.scripts[st.glyphs[Min(rows)].scriptId].name

----------------------------------------------------------------------------
(* Reconstruction module *)

\* a value that is a bounding box object, a number, or undefined
ObjectValue(b) == [type |-> "object", box |-> b, num |-> 0]

NumberValue(n) == [type |-> "number", box |-> <<>>, num |-> n]

\* JSON.stringify and JSON.parse of such a value
JsonStringify(v) == [json |-> v]

JsonParse(j) == j.json

ReconstructionThreshold == 70

MinBoxSize == 10

\* a policy that wants both sides of the box small
NeedsReconstructionBothSmall(symbol, confidence, boundingBox) ==
    \/ symbol = ""
    \/ confidence < ReconstructionThreshold
    \/ /\ boundingBox.type = "object"
       /\ boundingBox.box.width < MinBoxSize
       /\ boundingBox.box.height < MinBoxSize

\* a policy that takes confidence 0 for "not measured"
NeedsReconstructionPositiveOnly(symbol, confidence, boundingBox) ==
    \/ symbol = ""
    \/ confidence > 0 /\ confidence < ReconstructionThreshold
    \/ /\ boundingBox.type = "object"
       /\ \/ boundingBox.box.width < MinBoxSize
          \/ boundingBox.box.height < MinBoxSize

\* needsReconstruction: a number has no width or height to compare
NeedsReconstruction(symbol, confidence, boundingBox) ==
    \/ symbol = ""
    \/ confidence < ReconstructionThreshold
    \/ /\ boundingBox.type = "object"
       /\ \/ boundingBox.box.width < MinBoxSize
          \/ boundingBox.box.height < MinBoxSize

\* one glyph handed to needsReconstruction, and the verdicts on it
NrIdle ==
    [pc |-> "idle", symbol |-> "", confidence |-> 0, boundingBox |-> NumberValue(0),
     result |-> "none", prior |-> "none"]

\* the glyphs the policy is asked about: with and without a symbol, around
\* the confidence threshold, with boxes around the size threshold and with
\* the number the batch route passes for a box
GrmSymbols == {"", "dao"}

GrmConfidences == {0, 69, 70, 95}

GrmSides == {5, 10, 50}

GrmBoxes ==
    {ObjectValue([x |-> 10, y |-> 20, width |-> w, height |-> h]) : w, h \in GrmSides}
      \cup {NumberValue(0)}

Verdict(symbol, confidence, boundingBox) ==
    IF NeedsReconstruction(symbol, confidence, boundingBox) THEN "yes" ELSE "no"

\* needsReconstruction(glyph)
GrmEvaluate ==
    /\ nr.pc = "eval"
    /\ nr' = [nr EXCEPT !.result = Verdict(nr.symbol, nr.confidence, nr.boundingBox),
                        !.pc = "ready"]
    /\ UNCHANGED <<env, ocr, tr, store, run, drv, mg>>

\* the same glyph with a lower confidence is asked about next
GrmLowerConfidence ==
    /\ nr.pc = "ready"
    /\ \E c \in GrmConfidences :
         /\ c < nr.confidence
         /\ nr' = [nr EXCEPT !.confidence = c, !.prior = nr.result,
                             !.result = "none", !.pc = "eval"]
    /\ UNCHANGED <<env, ocr, tr, store, run, drv, mg>>

\* the same glyph with a narrower box is asked about next
GrmShrinkWidth ==
    /\ nr.pc = "ready"
    /\ nr.boundingBox.type = "object"
    /\ \E w \in GrmSides :
         /\ w < nr.boundingBox.box.width
         /\ nr' = [nr EXCEPT !.boundingBox.box.width = w, !.prior = nr.result,
                             !.result = "none", !.pc = "eval"]
    /\ UNCHANGED <<env, ocr, tr, store, run, drv, mg>>

\* the same glyph with a lower box is asked about next
GrmShrinkHeight ==
    /\ nr.pc = "ready"
    /\ nr.boundingBox.type = "object"
    /\ \E h \in GrmSides :
         /\ h < nr.boundingBox.box.height
         /\ nr' = [nr EXCEPT !.boundingBox.box.height = h, !.prior = nr.result,
                             !.result = "none", !.pc = "eval"]
    /\ UNCHANGED <<env, ocr, tr, store, run, drv, mg>>

\* confidences a reconstruction may come back with
ReconstructionConfidences == {0, 80}

\* batchReconstructGlyphs: one result per candidate
ReconstructionResults(candidates) ==
    {[k \in 1..Len(candidates) |->
        [reconstructedGlyph |-> candidates[k].symbol, confidence |-> c[k],
         method |-> "generative-reconstruction"]] :
       c \in [1..Len(candidates) -> ReconstructionConfidences]}

\* a version row that takes its first member's confidence for the mean
VersionRowOfFirst(u, n, results) ==
    [uploadId |-> u, versionNumber |-> n, reconstructedGlyphs |-> results,
     confidence |-> Conf(results[1].confidence, 1), method |-> "gemini-grm"]

\* a ReconstructionVersion row: its confidence is the mean of its members'
VersionRow(u, n, results) ==
    [uploadId |-> u, versionNumber |-> n, reconstructedGlyphs |-> results,
     confidence |-> Conf(SumConfidence(results), Len(results)), method |-> "gemini-grm"]

----------------------------------------------------------------------------
(* One processing run: a request to the process route, or one call of the  *)
(* batch driver's processUpload.  A run moves at each await.               *)

\* runs of the specification Spec
NumRuns == 2

NoUploadId == 0

\* an id no upload of the store has
UnknownUpload(st) == Len(st.uploads) + 1

\* texts the OCR orchestrator may return to a run
RunTexts == {<<"dao">>, <<",", "fa">>}

\* backend outputs of a translation request made for a run
RunOutputs == {<<"x">>}

RunIdle ==
    [kind |-> "none", pc |-> "idle", uploadId |-> NoUploadId, enable |-> FALSE,
     bodyUsed |-> FALSE, extraction |-> "pending", text |-> <<>>, method |-> "",
     glyphs |-> <<>>, scriptType |-> "", scriptId |-> 0, gi |-> 0,
     glyphId |-> 0, found |-> <<>>, seen |-> <<>>, recon |-> <<>>,
     versionNumber |-> 0, glyphsProcessed |-> 0,
     reconstructions |-> 0, writes |-> <<>>, error |-> "none", outcome |-> "none",
     context |-> <<>>, stages |-> <<>>]

\* the run is over: its locals go out of scope
Finish(rn, outcome) ==
    [rn EXCEPT !.pc = "done", !.outcome = outcome, !.scriptId = 0, !.gi = 0,
               !.glyphId = 0, !.found = <<>>, !.seen = <<>>, !.recon = <<>>,
               !.text = <<>>, !.method = "", !.context = <<>>,
               !.glyphs = <<>>, !.scriptType = ""]

\* where an exception raised at the run's position is caught
CatchPc(rn) ==
    IF rn.kind = "route"
    THEN IF rn.pc \in {"extract", "match", "scriptType"}
         THEN "r_failed"
         ELSE "r_catch"
    ELSE IF rn.pc \in {"b_find", "b_processing", "b_count",
                       "b_versionCompleted", "b_failed"}
         THEN "done"
         ELSE "b_failed"

Throw(rn, msg) ==
    IF CatchPc(rn) = "done"
    THEN Finish([rn EXCEPT !.error = msg], "rejected")
    ELSE [rn EXCEPT !.error = msg, !.pc = CatchPc(rn)]

\* the run's next await is an operation of the store
IsStoreOp(rn) ==
    \/ rn.pc \in {"r_find", "r_processing", "r_deleteMatches", "r_deleteTranslations",
                  "match", "r_failed", "r_script", "r_scriptCreate", "r_glyph",
                  "r_glyphCreate", "r_glyphUpdate", "r_match", "r_translation",
                  "r_completed", "b_find", "b_processing", "b_completed", "b_glyph",
                  "b_scriptFind", "b_scriptCreate", "b_glyphCreate", "b_match",
                  "b_count", "b_versionCompleted", "b_version", "b_failed"}
    \/ rn.pc = "scriptType" /\ Len(rn.glyphs) > 0

\* a store operation throws for a reason of the store's own
StoreFault(r) ==
    /\ store.faults > 0
    /\ IsStoreOp(run[r])
    /\ store' = [store EXCEPT !.faults = @ - 1]
    /\ run' = [run EXCEPT ![r] = Throw(run[r], "store")]
    /\ UNCHANGED <<env, ocr, tr, drv, mg, nr>>

WriteStatus(rn, status) == [rn EXCEPT !.writes = Append(@, status)]

\* the run calls a stage: extractTextFromImage ("ocr"), generateTranslation
\* from processAncientText ("translation"), matchGlyphs ("match") or
\* batchReconstructGlyphs ("reconstruction")
CallStage(rn, stage) == [rn EXCEPT !.stages = Append(@, stage)]

----------------------------------------------------------------------------
(* processAncientText *)

\* what extractTextFromImage may return to a run
OcrOutcomes(e) ==
    {AllMethodsFailed}
      \cup (IF e.geminiKey
            THEN {PostProcessed(GeminiStep(Ok(t), NoMsg).result, t) : t \in RunTexts}
            ELSE {})

\* what generateTranslation may return
TranslationOutcomes(e, text, glyphs) ==
    {FallbackTranslation(text, glyphs)}
      \cup (IF e.geminiKey /\ Truthy(text)
            THEN {TranslationStep(Ok(t)).result : t \in RunOutputs}
            ELSE {})

\* the meanings the semantic service may give for the characters of a text
MeaningMaps(e, text) ==
    LET cs == {text[k] : k \in DOMAIN text} \ Punctuation
    IN  IF e.geminiKey
        THEN {[c \in S |-> Real("AI meaning")] : S \in {{}, cs}}
        ELSE {[c \in {} |-> Null]}

\* the sample result of the development fallback
DevFallbackConfidence == 50

\* where a run goes on after processAncientText returned
AfterPipeline(rn) == IF rn.kind = "route" THEN "r_script" ELSE "b_completed"

\* Steps 1 and 2: extraction, what the pipeline makes of a result without
\* text, and the first-pass translation of the text, with no glyphs.  The
\* first-pass translation gives the result its confidence, which no caller
\* reads, and the matcher its context, which only the semantic service sees.
PipelineExtract(r) ==
    /\ run[r].pc = "extract"
    /\ \E res \in OcrOutcomes(env) :
         LET v == ExtractionVerdict(res, env.devFallback)
             rn == [CallStage(run[r], "ocr") EXCEPT
                      !.extraction = IF Truthy(res.text) THEN "text" ELSE "none"]
         IN
           CASE v = "text" ->
                  \E t \in TranslationOutcomes(env, res.text, <<>>) :
                    run' = [run EXCEPT ![r] =
                              [CallStage(rn, "translation") EXCEPT
                                 !.text = res.text, !.method = res.method,
                                 !.context = t.translation, !.pc = "match"]]
             [] v = "fallback-dev" ->
                  run' = [run EXCEPT ![r] =
                            [rn EXCEPT !.text = DaoFaZiRan,
                                       !.glyphs = <<>>, !.scriptType = DefaultScript,
                                       !.method = "fallback-dev",
                                       !.pc = AfterPipeline(run[r])]]
             [] OTHER ->
                  run' = [run EXCEPT ![r] = Throw(rn, "extraction")]
    /\ UNCHANGED <<env, ocr, tr, store, drv, mg, nr>>

\* Step 3: matchGlyphs is given the first-pass translation as its context
\* and reads the store's glyphs
PipelineMatch(r) ==
    /\ run[r].pc = "match"
    /\ \E ai \in MeaningMaps(env, run[r].text), lr \in MeaningMaps(env, run[r].text) :
         run' = [run EXCEPT ![r] =
                   [CallStage(run[r], "match") EXCEPT
                      !.glyphs = MatchGlyphs(run[r].text, store.glyphs, ai, lr,
                                             env.geminiKey),
                      !.context = <<>>, !.pc = "scriptType"]]
    /\ UNCHANGED <<env, ocr, tr, store, drv, mg, nr>>

\* the script type is read from the store, and the result returned
PipelineScriptType(r) ==
    /\ run[r].pc = "scriptType"
    /\ run' = [run EXCEPT ![r] =
                 [run[r] EXCEPT !.scriptType = IF Len(run[r].glyphs) > 0
                                          THEN ScriptTypeOf(store, run[r].glyphs)
                                          ELSE DefaultScript,
                           !.pc = AfterPipeline(run[r])]]
    /\ UNCHANGED <<env, ocr, tr, store, drv, mg, nr>>

----------------------------------------------------------------------------
(* The process route: POST *)

\* the request body is read and the upload id taken from it
RouteRequest(r) ==
    /\ run[r].pc = "idle"
    /\ \E id \in {NoUploadId, UnknownUpload(store)} \cup UploadIds(store) :
         run' = [run EXCEPT ![r] =
                   IF id = NoUploadId
                   THEN Finish([run[r] EXCEPT !.kind = "route", !.bodyUsed = TRUE], "400")
                   ELSE [run[r] EXCEPT !.kind = "route", !.bodyUsed = TRUE,
                                  !.uploadId = id, !.pc = "r_find"]]
    /\ UNCHANGED <<env, ocr, tr, store, drv, mg, nr>>

RouteFindUpload(r) ==
    /\ run[r].pc = "r_find"
    /\ run' = [run EXCEPT ![r] =
                 IF run[r].uploadId \in UploadIds(store)
                 THEN [run[r] EXCEPT !.pc = "r_processing"]
                 ELSE Finish(@, "404")]
    /\ UNCHANGED <<env, ocr, tr, store, drv, mg, nr>>

RouteSetProcessing(r) ==
    /\ run[r].pc = "r_processing"
    /\ store' = SetStatus(store, run[r].uploadId, "PROCESSING")
    /\ run' = [run EXCEPT ![r] =
                 [WriteStatus(@, "PROCESSING") EXCEPT !.pc = "r_deleteMatches"]]
    /\ UNCHANGED <<env, ocr, tr, drv, mg, nr>>

RouteDeleteMatches(r) ==
    /\ run[r].pc = "r_deleteMatches"
    /\ store' = [store EXCEPT !.matches =
                   SelectSeq(@, LAMBDA m : m.uploadId # run[r].uploadId)]
    /\ run' = [run EXCEPT ![r].pc = "r_deleteTranslations"]
    /\ UNCHANGED <<env, ocr, tr, drv, mg, nr>>

RouteDeleteTranslations(r) ==
    /\ run[r].pc = "r_deleteTranslations"
    /\ store' = [store EXCEPT !.translations =
                   SelectSeq(@, LAMBDA t : t.uploadId # run[r].uploadId)]
    /\ run' = [run EXCEPT ![r].pc = "extract"]
    /\ UNCHANGED <<env, ocr, tr, drv, mg, nr>>

\* the catch around processAncientText
RouteAiFailed(r) ==
    /\ run[r].pc = "r_failed"
    /\ store' = SetStatus(store, run[r].uploadId, "FAILED")
    /\ run' = [run EXCEPT ![r] = Finish(WriteStatus(@, "FAILED"), "500")]
    /\ UNCHANGED <<env, ocr, tr, drv, mg, nr>>

\* the loop over processingResult.glyphs: the next glyph, or the translation
RouteLoopPc(rn, i) == IF i <= Len(rn.glyphs) THEN "r_glyph" ELSE "r_translation"

RouteFindScript(r) ==
    /\ run[r].pc = "r_script"
    /\ LET k == FindScript(store, run[r].scriptType) IN
         run' = [run EXCEPT ![r] =
                   IF k # 0
                   THEN [run[r] EXCEPT !.scriptId = k, !.gi = 1, !.pc = RouteLoopPc(run[r], 1)]
                   ELSE [run[r] EXCEPT !.pc = "r_scriptCreate"]]
    /\ UNCHANGED <<env, ocr, tr, store, drv, mg, nr>>

ScriptRow(name) == [name |-> name]

RouteCreateScript(r) ==
    /\ run[r].pc = "r_scriptCreate"
    /\ IF ScriptNameTaken(store, run[r].scriptType)
       THEN /\ run' = [run EXCEPT ![r] = Throw(@, "unique")]
            /\ UNCHANGED store
       ELSE /\ store' = [store EXCEPT !.scripts = Append(@, ScriptRow(run[r].scriptType))]
            /\ run' = [run EXCEPT ![r] =
                         [run[r] EXCEPT !.scriptId = Len(store.scripts) + 1, !.gi = 1,
                                   !.pc = RouteLoopPc(run[r], 1)]]
    /\ UNCHANGED <<env, ocr, tr, drv, mg, nr>>

\* the meaning is worth storing
HasValidMeaning(meaning) ==
    /\ ~IsNull(meaning)
    /\ ~IncludesUnknownCharacter(meaning)
    /\ ~IncludesNotAvailable(meaning)
    /\ ~IncludesCharacterColon(meaning)

CurrentIsPlaceholder(description) ==
    \/ IsNull(description)
    \/ IncludesCharacterColon(description)
    \/ IncludesUnknown(description)

RouteFindGlyph(r) ==
    /\ run[r].pc = "r_glyph"
    /\ LET g == run[r].glyphs[run[r].gi]
           k == FindGlyph(store, g.symbol, run[r].scriptId)
       IN  run' = [run EXCEPT ![r] =
                     IF k = 0
                     THEN [run[r] EXCEPT !.pc = "r_glyphCreate"]
                     ELSE [run[r] EXCEPT !.glyphId = k, !.found = <<store.glyphs[k]>>,
                                    !.pc = IF /\ HasValidMeaning(g.meaning)
                                              /\ CurrentIsPlaceholder(store.glyphs[k].description)
                                           THEN "r_glyphUpdate"
                                           ELSE "r_match"]]
    /\ UNCHANGED <<env, ocr, tr, store, drv, mg, nr>>

\* the glyph row the route creates for a match
RouteGlyphRow(scriptId, g) ==
    [scriptId |-> scriptId, symbol |-> g.symbol, name |-> Real(g.symbol),
     description |-> IF HasValidMeaning(g.meaning) THEN g.meaning
                     ELSE CharacterPlaceholder(g.symbol),
     confidence |-> g.confidence]

RouteCreateGlyph(r) ==
    /\ run[r].pc = "r_glyphCreate"
    /\ store' = [store EXCEPT !.glyphs =
                   Append(@, RouteGlyphRow(run[r].scriptId, run[r].glyphs[run[r].gi]))]
    /\ run' = [run EXCEPT ![r] =
                 [run[r] EXCEPT !.glyphId = Len(store.glyphs) + 1, !.pc = "r_match"]]
    /\ UNCHANGED <<env, ocr, tr, drv, mg, nr>>

RouteUpdateGlyph(r) ==
    /\ run[r].pc = "r_glyphUpdate"
    /\ LET g == run[r].glyphs[run[r].gi] IN
         store' = [store EXCEPT !.glyphs[run[r].glyphId] =
                     [@ EXCEPT !.description = g.meaning,
                               !.confidence = Max2(run[r].found[1].confidence,
                                                   g.confidence)]]
    /\ run' = [run EXCEPT ![r].pc = "r_match"]
    /\ UNCHANGED <<env, ocr, tr, drv, mg, nr>>

\* the glyph match row the route creates
RouteMatchRow(u, glyphId, g) ==
    [uploadId |-> u, glyphId |-> glyphId, confidence |-> g.confidence,
     boundingBox |-> JsonStringify(ObjectValue(g.boundingBox)),
     position |-> g.position]

RouteCreateMatch(r) ==
    /\ run[r].pc = "r_match"
    /\ store' = [store EXCEPT !.matches =
                   Append(@, RouteMatchRow(run[r].uploadId, run[r].glyphId,
                                           run[r].glyphs[run[r].gi]))]
    /\ run' = [run EXCEPT ![r] =
                 [run[r] EXCEPT !.gi = @ + 1, !.found = <<>>,
                           !.pc = RouteLoopPc(run[r], run[r].gi + 1)]]
    /\ UNCHANGED <<env, ocr, tr, drv, mg, nr>>

TranslationRow(u, text, t) ==
    [uploadId |-> u, originalText |-> text, translatedText |-> t.translation,
     confidence |-> t.confidence]

\* generateTranslation(extractedText, glyphs), and the record of its result
RouteCreateTranslation(r) ==
    /\ run[r].pc = "r_translation"
    /\ \E t \in TranslationOutcomes(env, run[r].text, run[r].glyphs) :
         store' = [store EXCEPT !.translations =
                     Append(@, TranslationRow(run[r].uploadId, run[r].text, t))]
    /\ run' = [run EXCEPT ![r].pc = "r_completed"]
    /\ UNCHANGED <<env, ocr, tr, drv, mg, nr>>

RouteSetCompleted(r) ==
    /\ run[r].pc = "r_completed"
    /\ store' = SetStatus(store, run[r].uploadId, "COMPLETED")
    /\ run' = [run EXCEPT ![r] = Finish(WriteStatus(@, "COMPLETED"), "200")]
    /\ UNCHANGED <<env, ocr, tr, drv, mg, nr>>

\* the upload id the outer catch gets from reading the request body again:
\* a body that was read once cannot be read again
RereadUploadId(rn) == IF rn.bodyUsed THEN NoUploadId ELSE rn.uploadId

\* the outer catch
RouteCatch(r) ==
    /\ run[r].pc = "r_catch"
    /\ LET id == RereadUploadId(run[r]) IN
         IF id \in UploadIds(store)
         THEN /\ store' = SetStatus(store, id, "FAILED")
              /\ run' = [run EXCEPT ![r] = Finish(WriteStatus(@, "FAILED"), "500")]
         ELSE /\ run' = [run EXCEPT ![r] = Finish(@, "500")]
              /\ UNCHANGED store
    /\ UNCHANGED <<env, ocr, tr, drv, mg, nr>>

----------------------------------------------------------------------------
(* The batch driver's processUpload *)

\* upload.glyphs with each match's glyph, as findUnique includes them
UploadGlyphs(st, u) ==
    LET rows == SelectSeq(st.matches, LAMBDA m : m.uploadId = u)
    IN  [k \in 1..Len(rows) |->
           [symbol |-> st.glyphs[rows[k].glyphId].symbol,
            confidence |-> rows[k].confidence,
            boundingBox |-> JsonParse(rows[k].boundingBox)]]

\* the stored matches of a completed upload that need reconstruction
\* a filter that takes every stored glyph match for a candidate
StoredCandidatesAll(seen) == seen

StoredCandidates(seen) ==
    SelectSeq(seen, LAMBDA g : NeedsReconstruction(g.symbol, g.confidence, g.boundingBox))

\* the matches of a fresh result that need reconstruction: the driver hands
\* needsReconstruction the match's position as its bounding box
FreshCandidates(glyphs) ==
    SelectSeq(glyphs, LAMBDA g :
                NeedsReconstruction(g.symbol, g.confidence, NumberValue(g.position)))

\* the ProcessingResult has no translation field
ResultHasTranslation(rn) == FALSE

BatchFindUpload(r) ==
    /\ run[r].pc = "b_find"
    /\ LET u == run[r].uploadId
           seen == UploadGlyphs(store, u)
       IN  run' = [run EXCEPT ![r] =
                     IF store.uploads[u].status = "COMPLETED"
                     THEN IF run[r].enable /\ Len(StoredCandidates(seen)) > 0
                          THEN [run[r] EXCEPT !.seen = seen, !.glyphsProcessed = Len(seen),
                                         !.pc = "b_count"]
                          ELSE Finish([run[r] EXCEPT !.glyphsProcessed = Len(seen)],
                                      "fulfilled")
                     ELSE [run[r] EXCEPT !.pc = "b_processing"]]
    /\ UNCHANGED <<env, ocr, tr, store, drv, mg, nr>>

CountVersions(st, u) ==
    Len(SelectSeq(st.versions, LAMBDA v : v.uploadId = u))

\* batchReconstructGlyphs on the stored candidates, then the count of the
\* upload's versions
BatchCountVersions(r) ==
    /\ run[r].pc = "b_count"
    /\ \E res \in ReconstructionResults(StoredCandidates(run[r].seen)) :
         run' = [run EXCEPT ![r] =
                   [CallStage(run[r], "reconstruction") EXCEPT !.recon = res,
                                  !.versionNumber = CountVersions(store, run[r].uploadId) + 1,
                                  !.pc = "b_versionCompleted"]]
    /\ UNCHANGED <<env, ocr, tr, store, drv, mg, nr>>

BatchCreateVersionCompleted(r) ==
    /\ run[r].pc = "b_versionCompleted"
    /\ store' = [store EXCEPT !.versions =
                   Append(@, VersionRow(run[r].uploadId, run[r].versionNumber,
                                        run[r].recon))]
    /\ run' = [run EXCEPT ![r] =
                 Finish([run[r] EXCEPT !.reconstructions = Len(run[r].recon)], "fulfilled")]
    /\ UNCHANGED <<env, ocr, tr, drv, mg, nr>>

BatchSetProcessing(r) ==
    /\ run[r].pc = "b_processing"
    /\ store' = SetStatus(store, run[r].uploadId, "PROCESSING")
    /\ run' = [run EXCEPT ![r] =
                 [WriteStatus(@, "PROCESSING") EXCEPT !.pc = "extract"]]
    /\ UNCHANGED <<env, ocr, tr, drv, mg, nr>>

\* after the glyphs are saved: the translation is skipped, then reconstruction
BatchAfterGlyphs(rn) ==
    IF rn.enable /\ Len(FreshCandidates(rn.glyphs)) > 0
    THEN [rn EXCEPT !.pc = "b_version"]
    ELSE Finish(rn, "fulfilled")

\* the loop over result.glyphs
BatchLoop(rn, i) ==
    IF i <= Len(rn.glyphs)
    THEN [rn EXCEPT !.gi = i, !.pc = "b_glyph"]
    ELSE BatchAfterGlyphs([rn EXCEPT !.gi = i])

BatchSetCompleted(r) ==
    /\ run[r].pc = "b_completed"
    /\ store' = [SetStatus(store, run[r].uploadId, "COMPLETED")
                   EXCEPT !.uploads[run[r].uploadId].scriptType = run[r].scriptType]
    /\ run' = [run EXCEPT ![r] = BatchLoop(WriteStatus(@, "COMPLETED"), 1)]
    /\ UNCHANGED <<env, ocr, tr, drv, mg, nr>>

BatchFindGlyph(r) ==
    /\ run[r].pc = "b_glyph"
    /\ LET k == FindGlyphBySymbol(store, run[r].glyphs[run[r].gi].symbol) IN
         run' = [run EXCEPT ![r] =
                   IF k # 0
                   THEN [run[r] EXCEPT !.glyphId = k, !.pc = "b_match"]
                   ELSE [run[r] EXCEPT !.pc = "b_scriptFind"]]
    /\ UNCHANGED <<env, ocr, tr, store, drv, mg, nr>>

BatchFindScript(r) ==
    /\ run[r].pc = "b_scriptFind"
    /\ LET k == FindScript(store, run[r].scriptType) IN
         run' = [run EXCEPT ![r] =
                   IF k # 0
                   THEN [run[r] EXCEPT !.scriptId = k, !.pc = "b_glyphCreate"]
                   ELSE [run[r] EXCEPT !.pc = "b_scriptCreate"]]
    /\ UNCHANGED <<env, ocr, tr, store, drv, mg, nr>>

BatchCreateScript(r) ==
    /\ run[r].pc = "b_scriptCreate"
    /\ IF ScriptNameTaken(store, run[r].scriptType)
       THEN /\ run' = [run EXCEPT ![r] = Throw(@, "unique")]
            /\ UNCHANGED store
       ELSE /\ store' = [store EXCEPT !.scripts = Append(@, ScriptRow(run[r].scriptType))]
            /\ run' = [run EXCEPT ![r] =
                         [run[r] EXCEPT !.scriptId = Len(store.scripts) + 1,
                                   !.pc = "b_glyphCreate"]]
    /\ UNCHANGED <<env, ocr, tr, drv, mg, nr>>

\* the glyph row the batch driver creates for a match
BatchGlyphRow(scriptId, g) ==
    [scriptId |-> scriptId, symbol |-> g.symbol, name |-> Null,
     description |-> g.meaning, confidence |-> g.confidence]

BatchCreateGlyph(r) ==
    /\ run[r].pc = "b_glyphCreate"
    /\ store' = [store EXCEPT !.glyphs =
                   Append(@, BatchGlyphRow(run[r].scriptId, run[r].glyphs[run[r].gi]))]
    /\ run' = [run EXCEPT ![r] =
                 [run[r] EXCEPT !.glyphId = Len(store.glyphs) + 1, !.pc = "b_match"]]
    /\ UNCHANGED <<env, ocr, tr, drv, mg, nr>>

\* the glyph match row the batch driver creates
BatchMatchRow(u, glyphId, g, n) ==
    [uploadId |-> u, glyphId |-> glyphId, confidence |-> g.confidence,
     boundingBox |-> JsonStringify(NumberValue(g.position)),
     position |-> n]

BatchCreateMatch(r) ==
    /\ run[r].pc = "b_match"
    /\ store' = [store EXCEPT !.matches =
                   Append(@, BatchMatchRow(run[r].uploadId, run[r].glyphId,
                                           run[r].glyphs[run[r].gi],
                                           run[r].glyphsProcessed))]
    /\ run' = [run EXCEPT ![r] =
                 BatchLoop([run[r] EXCEPT !.glyphsProcessed = @ + 1], run[r].gi + 1)]
    /\ UNCHANGED <<env, ocr, tr, drv, mg, nr>>

FirstVersionNumber == 1

\* batchReconstructGlyphs on the fresh candidates, and the version of its results
BatchCreateVersion(r) ==
    /\ run[r].pc = "b_version"
    /\ \E res \in ReconstructionResults(FreshCandidates(run[r].glyphs)) :
         /\ store' = [store EXCEPT !.versions =
                        Append(@, VersionRow(run[r].uploadId, FirstVersionNumber, res))]
         /\ run' = [run EXCEPT ![r] =
                      Finish([CallStage(run[r], "reconstruction") EXCEPT
                                 !.versionNumber = FirstVersionNumber,
                                            !.reconstructions = Len(res)], "fulfilled")]
    /\ UNCHANGED <<env, ocr, tr, drv, mg, nr>>

\* the catch of processUpload: the status is set and the error thrown on
BatchFailed(r) ==
    /\ run[r].pc = "b_failed"
    /\ store' = SetStatus(store, run[r].uploadId, "FAILED")
    /\ run' = [run EXCEPT ![r] = Finish(WriteStatus(@, "FAILED"), "rejected")]
    /\ UNCHANGED <<env, ocr, tr, drv, mg, nr>>

----------------------------------------------------------------------------
(* Spec: runs of the process route and of processUpload, started at any     *)
(* time on any upload and interleaved at their awaits, on one store.        *)

Runs == DOMAIN run

\* the batch driver calls processUpload(uploadId, enableReconstruction)
ProcessUploadCall(r) ==
    /\ run[r].pc = "idle"
    /\ \E u \in UploadIds(store), enable \in BOOLEAN :
         run' = [run EXCEPT ![r] = [run[r] EXCEPT !.kind = "batch", !.uploadId = u,
                                             !.enable = enable, !.pc = "b_find"]]
    /\ UNCHANGED <<env, ocr, tr, store, drv, mg, nr>>

----------------------------------------------------------------------------
(* The batch driver: POST *)

\* most uploads a batch request names, and the largest maxConcurrent it gives
MaxBatchUploads == 5

MaxMaxConcurrent == 3

DefaultMaxConcurrent == 3

DrvIdle ==
    [pc |-> "idle", uploadIds |-> {}, parallel |-> FALSE,
     maxConcurrent |-> DefaultMaxConcurrent, enable |-> TRUE, uploads |-> <<>>,
     i |-> 0, batches |-> <<>>, bi |-> 0, results |-> <<>>,
     status |-> 0, processed |-> 0, failed |-> 0]

\* the ids of a set, as findMany lists them
RECURSIVE IdsInOrder(_)
IdsInOrder(S) ==
    IF S = {} THEN <<>>
    ELSE <<Min(S)>> \o IdsInOrder(S \ {Min(S)})

\* the uploadIds arrays of the requests: the first n uploads, or an id no
\* upload has
BatchRequests(st) ==
    {1..n : n \in 0..Len(st.uploads)} \cup {{UnknownUpload(st)}}

Respond(d, status) == [d EXCEPT !.pc = "done", !.status = status]

\* the body is read and its options are taken, with their defaults
BatchRequest ==
    /\ drv.pc = "idle"
    /\ \E ids \in BatchRequests(store), parallel \in BOOLEAN, enable \in BOOLEAN,
          mc \in 1..MaxMaxConcurrent :
         drv' = IF ids = {}
                THEN Respond(drv, 400)
                ELSE [drv EXCEPT !.uploadIds = ids, !.parallel = parallel,
                                 !.enable = enable, !.maxConcurrent = mc,
                                 !.pc = "findMany"]
    /\ UNCHANGED <<env, ocr, tr, store, run, mg, nr>>

\* the uploads of the request are fetched; the results start empty
BatchFindMany ==
    /\ drv.pc = "findMany"
    /\ LET uploads == IdsInOrder(drv.uploadIds \cap UploadIds(store)) IN
         drv' = IF Len(uploads) = 0
                THEN Respond(drv, 404)
                ELSE [drv EXCEPT !.uploads = uploads, !.results = <<>>,
                                 !.batches = <<>>, !.i = 0,
                                 !.pc = IF drv.parallel THEN "partition" ELSE "sequential"]
    /\ UNCHANGED <<env, ocr, tr, store, run, mg, nr>>

\* findMany throws: the outer catch answers
BatchFindManyFault ==
    /\ drv.pc = "findMany"
    /\ store.faults > 0
    /\ store' = [store EXCEPT !.faults = @ - 1]
    /\ drv' = Respond(drv, 500)
    /\ UNCHANGED <<env, ocr, tr, run, mg, nr>>

\* a slice one upload too long
\* the number of turns of the partition loop that are followed
MaxPartitionSteps == 8

ChunkOfOneMore(uploads, i, maxConcurrent) ==
    SubSeq(uploads, i + 1, Min({i + maxConcurrent + 1, Len(uploads)}))

\* uploads.slice(i, i + maxConcurrent), i counted from 0
\* Array.prototype.slice on a list: a negative index counts from the end,
\* both indexes are clamped to the list, and the slice is empty when the
\* start is not before the end
Slice(list, start, end) ==
    LET clamp(k) == IF k < 0
                    THEN (IF Len(list) + k > 0 THEN Len(list) + k ELSE 0)
                    ELSE (IF k < Len(list) THEN k ELSE Len(list))
    IN  SubSeq(list, clamp(start) + 1, clamp(end))

ChunkOf(uploads, i, maxConcurrent) == Slice(uploads, i, i + maxConcurrent)

\* one turn of the loop that partitions the uploads
BatchPartition ==
    /\ drv.pc = "partition"
    /\ Len(drv.batches) < MaxPartitionSteps
    /\ drv' = IF drv.i < Len(drv.uploads)
              THEN [drv EXCEPT !.batches =
                                 Append(@, ChunkOf(drv.uploads, drv.i, drv.maxConcurrent)),
                               !.i = @ + drv.maxConcurrent]
              ELSE [drv EXCEPT !.pc = "chunk", !.bi = 1]
    /\ UNCHANGED <<env, ocr, tr, store, run, mg, nr>>

\* processUpload is called: it runs up to its first await
Called(u, enable) ==
    [RunIdle EXCEPT !.kind = "batch", !.uploadId = u, !.enable = enable, !.pc = "b_find"]

Settled(rn) == rn.pc = "done"

\* the entry of a settled run: its own value, or the failed entry made of its
\* rejection
\* a failed entry that does not say which upload failed
FailedEntryWithoutId(uploadId, message) ==
    [uploadId |-> NoUploadId, status |-> "failed", error |-> message]

FailedEntry(uploadId, message) ==
    [uploadId |-> uploadId, status |-> "failed", error |-> message]

SuccessEntry(rn) ==
    [uploadId |-> rn.uploadId, status |-> "success",
     glyphsProcessed |-> rn.glyphsProcessed, reconstructions |-> rn.reconstructions]

SettledEntry(uploadId, rn) ==
    IF rn.outcome = "fulfilled" THEN SuccessEntry(rn) ELSE FailedEntry(uploadId, rn.error)

\* the results of a chunk if its first rejection were all that is kept of it,
\* as with Promise.all
ChunkEntriesFailFast(batch, runs) ==
    LET rejected == {k \in DOMAIN batch : runs[batch[k]].outcome = "rejected"}
    IN  IF rejected = {}
        THEN [k \in 1..Len(batch) |-> SuccessEntry(runs[batch[k]])]
        ELSE <<FailedEntry(batch[Min(rejected)], runs[batch[Min(rejected)]].error)>>

\* Promise.allSettled's results, taken in the order of the chunk
ChunkEntries(batch, runs) ==
    [k \in 1..Len(batch) |-> SettledEntry(batch[k], runs[batch[k]])]

\* the runs of the next chunk are all called
BatchStartChunk ==
    /\ drv.pc = "chunk"
    /\ drv.bi <= Len(drv.batches)
    /\ LET batch == drv.batches[drv.bi] IN
         run' = [r \in DOMAIN run |->
                   IF \E k \in DOMAIN batch : batch[k] = r
                   THEN Called(r, drv.enable)
                   ELSE run[r]]
    /\ drv' = [drv EXCEPT !.pc = "allSettled"]
    /\ UNCHANGED <<env, ocr, tr, store, mg, nr>>

\* every run of the chunk has settled: their entries are pushed
BatchChunkSettled ==
    /\ drv.pc = "allSettled"
    /\ LET batch == drv.batches[drv.bi] IN
         /\ \A k \in DOMAIN batch : Settled(run[batch[k]])
         /\ drv' = [drv EXCEPT !.results = @ \o ChunkEntries(batch, run),
                               !.bi = @ + 1, !.pc = "chunk"]
    /\ UNCHANGED <<env, ocr, tr, store, run, mg, nr>>

\* sequential mode: processUpload is called for the next upload
BatchStartNext ==
    /\ drv.pc = "sequential"
    /\ drv.i < Len(drv.uploads)
    /\ LET u == drv.uploads[drv.i + 1] IN
         run' = [run EXCEPT ![u] = Called(u, drv.enable)]
    /\ drv' = [drv EXCEPT !.pc = "await"]
    /\ UNCHANGED <<env, ocr, tr, store, mg, nr>>

\* sequential mode: the run returned or threw
BatchNextSettled ==
    /\ drv.pc = "await"
    /\ LET u == drv.uploads[drv.i + 1] IN
         /\ Settled(run[u])
         /\ drv' = [drv EXCEPT !.results = Append(@, SettledEntry(u, run[u])),
                               !.i = @ + 1, !.pc = "sequential"]
    /\ UNCHANGED <<env, ocr, tr, store, run, mg, nr>>

CountStatus(results, status) ==
    Len(SelectSeq(results, LAMBDA e : e.status = status))

\* the loop is over: the response counts the entries
BatchRespond ==
    /\ \/ drv.pc = "chunk" /\ drv.bi > Len(drv.batches)
       \/ drv.pc = "sequential" /\ drv.i >= Len(drv.uploads)
    /\ drv' = [Respond(drv, 200) EXCEPT
                 !.processed = CountStatus(drv.results, "success"),
                 !.failed = CountStatus(drv.results, "failed")]
    /\ UNCHANGED <<env, ocr, tr, store, run, mg, nr>>

Init ==
    /\ env \in Envs
    /\ ocr = OcrIdle
    /\ tr = TrIdle
    /\ store = StoreOf(NumUploads, MaxFaults)
    /\ run = [r \in 1..NumRuns |-> RunIdle]
    /\ drv = DrvIdle
    /\ mg = MgIdle
    /\ nr = NrIdle

Next ==
    \/ \E r \in Runs : RouteRequest(r)
    \/ \E r \in Runs : RouteFindUpload(r)
    \/ \E r \in Runs : RouteSetProcessing(r)
    \/ \E r \in Runs : RouteDeleteMatches(r)
    \/ \E r \in Runs : RouteDeleteTranslations(r)
    \/ \E r \in Runs : PipelineExtract(r)
    \/ \E r \in Runs : PipelineMatch(r)
    \/ \E r \in Runs : PipelineScriptType(r)
    \/ \E r \in Runs : RouteAiFailed(r)
    \/ \E r \in Runs : RouteFindScript(r)
    \/ \E r \in Runs : RouteCreateScript(r)
    \/ \E r \in Runs : RouteFindGlyph(r)
    \/ \E r \in Runs : RouteCreateGlyph(r)
    \/ \E r \in Runs : RouteUpdateGlyph(r)
    \/ \E r \in Runs : RouteCreateMatch(r)
    \/ \E r \in Runs : RouteCreateTranslation(r)
    \/ \E r \in Runs : RouteSetCompleted(r)
    \/ \E r \in Runs : RouteCatch(r)
    \/ \E r \in Runs : ProcessUploadCall(r)
    \/ \E r \in Runs : BatchFindUpload(r)
    \/ \E r \in Runs : BatchCountVersions(r)
    \/ \E r \in Runs : BatchCreateVersionCompleted(r)
    \/ \E r \in Runs : BatchSetProcessing(r)
    \/ \E r \in Runs : BatchSetCompleted(r)
    \/ \E r \in Runs : BatchFindGlyph(r)
    \/ \E r \in Runs : BatchFindScript(r)
    \/ \E r \in Runs : BatchCreateScript(r)
    \/ \E r \in Runs : BatchCreateGlyph(r)
    \/ \E r \in Runs : BatchCreateMatch(r)
    \/ \E r \in Runs : BatchCreateVersion(r)
    \/ \E r \in Runs : BatchFailed(r)
    \/ \E r \in Runs : StoreFault(r)

Spec == Init /\ [][Next]_vars

----------------------------------------------------------------------------
(* SpecOCR: one extraction, from extractTextFromImage to the verdict of    *)
(* processAncientText on its result.                                       *)

InitOCR ==
    /\ env \in Envs
    /\ ocr = [OcrIdle EXCEPT !.pc = "start"]
    /\ tr = TrIdle
    /\ store = EmptyStore
    /\ run = <<>>
    /\ drv = DrvIdle
    /\ mg = MgIdle
    /\ nr = NrIdle

SpecOCR == InitOCR /\ [][NextOCR]_vars

----------------------------------------------------------------------------
(* SpecBatch: one request to the batch driver, with no recognition backend *)
(* configured, so that a run ends at the development fallback or at the    *)
(* extraction's failure, or at a fault of the store.                       *)

MaxBatchFaults == 2

InitBatch ==
    /\ env \in {e \in Envs : ~e.geminiKey}
    /\ ocr = OcrIdle
    /\ tr = TrIdle
    /\ store \in {StoreOf(MaxBatchUploads, f) : f \in 0..MaxBatchFaults}
    /\ run = [r \in 1..MaxBatchUploads |-> RunIdle]
    /\ drv = DrvIdle
    /\ mg = MgIdle
    /\ nr = NrIdle

NextBatch ==
    \/ BatchRequest
    \/ BatchFindMany
    \/ BatchFindManyFault
    \/ BatchPartition
    \/ BatchStartChunk
    \/ BatchChunkSettled
    \/ BatchStartNext
    \/ BatchNextSettled
    \/ BatchRespond
    \/ \E r \in Runs : BatchFindUpload(r)
    \/ \E r \in Runs : BatchSetProcessing(r)
    \/ \E r \in Runs : PipelineExtract(r)
    \/ \E r \in Runs : BatchSetCompleted(r)
    \/ \E r \in Runs : BatchFailed(r)
    \/ \E r \in Runs : StoreFault(r)

SpecBatch == InitBatch /\ [][NextBatch]_vars

----------------------------------------------------------------------------
(* SpecTranslate: one call of generateTranslation *)

\* the texts and glyph lists generateTranslation is called with
TranslateTexts == {<<>>, DaoFaZiRan, <<"dao">>}

TranslateGlyphs ==
    {<<>>,
     <<GlyphMatch("dao", FoundConfidence, 0, Real("way"))>>,
     <<GlyphMatch("dao", AiConfidence, 0, Real("way")),
       GlyphMatch("fa", AiConfidence + 10, 1, Null)>>,
     [k \in 1..4 |->
        GlyphMatch(DaoFaZiRan[k], RecognizedConfidence, k - 1, MeaningNotAvailable)]}

InitTranslate ==
    /\ env \in Envs
    /\ ocr = OcrIdle
    /\ tr \in {[TrIdle EXCEPT !.pc = "start", !.text = t, !.glyphs = g] :
                 t \in TranslateTexts, g \in TranslateGlyphs}
    /\ store = EmptyStore
    /\ run = <<>>
    /\ drv = DrvIdle
    /\ mg = MgIdle
    /\ nr = NrIdle

SpecTranslate == InitTranslate /\ [][NextTranslate]_vars

----------------------------------------------------------------------------
(* Properties of the runs (Spec) *)

Writes(r) == run[r].writes

Wrote(r, status) == \E k \in DOMAIN Writes(r) : Writes(r)[k] = status

\* C1: a run sets the status FAILED only when its extraction yielded no text
\* and the development fallback is not permitted; no later stage's failure
\* moves the run to FAILED.
C1_FailedOnlyOnExtraction ==
    \A r \in Runs :
      Wrote(r, "FAILED") => run[r].extraction = "none" /\ ~env.devFallback

\* C2: no run that set the status PROCESSING ends without having set it to
\* COMPLETED or FAILED, whatever threw after processing started.
C2_ProcessingEnds ==
    \A r \in Runs :
      run[r].pc = "done" /\ Wrote(r, "PROCESSING")
        => Wrote(r, "COMPLETED") \/ Wrote(r, "FAILED")

\* C3: once a run has set the status COMPLETED it never afterwards sets it
\* to FAILED.
C3_CompletedIsTerminal ==
    \A r \in Runs :
      \A j, k \in DOMAIN Writes(r) :
        j < k => ~(Writes(r)[j] = "COMPLETED" /\ Writes(r)[k] = "FAILED")

\* C9: the store holds at most one glyph row per (symbol, script) and at most
\* one script row per name, and no run fails on a row another run created
\* first.
C9_CreateIfAbsent ==
    /\ \A j, k \in DOMAIN store.glyphs :
         store.glyphs[j].symbol = store.glyphs[k].symbol
           /\ store.glyphs[j].scriptId = store.glyphs[k].scriptId
           => j = k
    /\ \A j, k \in DOMAIN store.scripts :
         store.scripts[j].name = store.scripts[k].name => j = k
    /\ \A r \in Runs : run[r].error # "unique"

----------------------------------------------------------------------------
(* Properties of the OCR orchestrator (SpecOCR) *)

Returned == ocr.pc \in {"extracted", "done"}

\* the response of configuration k was successful and carried text
Successful(k) == ResponseOk(ocr.resps[k]) /\ Truthy(ocr.resps[k].text)

\* C4: the orchestrator stops calling configurations only at the first
\* successful response with text, and then returns a result of method gemini
\* with confidence 0.90 and that text, or after the last configuration; a
\* result with text has a confidence in (0, 1].
C4_FirstSuccessReturns ==
    Returned /\ ocr.calls # <<>> =>
      LET n == Len(ocr.calls) IN
        /\ \A k \in 1..(n - 1) : ~Successful(k)
        /\ \/ /\ Successful(n)
              /\ ocr.result.method = "gemini"
              /\ ocr.result.confidence = GeminiConfidence
              /\ Truthy(ocr.result.text)
           \/ /\ ~Successful(n)
              /\ n = NumOcrConfigs
        /\ Truthy(ocr.result.text)
             => ocr.result.confidence > 0 /\ ocr.result.confidence <= 100

\* C5: the configurations are called in list order, each at most once, and a
\* 404, a 429, another non-2xx status, a transport error and a timeout each
\* make the loop go on to the next configuration.
C5_EachConfigOnceInOrder ==
    /\ Len(ocr.calls) <= NumOcrConfigs
    /\ \A k \in DOMAIN ocr.calls : ocr.calls[k] = k
    /\ \A k \in DOMAIN ocr.resps :
         ocr.resps[k].kind \in {"404", "429", "err", "throw", "timeout"}
           => /\ ocr.i > k
              /\ ocr.pc = "loop" \/ Len(ocr.calls) > k \/ k = NumOcrConfigs

\* a 404, a 429 and a timeout were each followed by the next configuration,
\* and the fourth answered with text
C5_Witness ==
    /\ ocr.pc = "methodDone"
    /\ ocr.calls = <<1, 2, 3, 4>>
    /\ ocr.resps[1].kind = "404"
    /\ ocr.resps[2].kind = "429"
    /\ ocr.resps[3].kind = "timeout"
    /\ Successful(4)

Exhausted ==
    /\ Len(ocr.calls) = NumOcrConfigs
    /\ \A k \in DOMAIN ocr.resps : ~Successful(k)

\* C6: when every configuration is exhausted, the result handed to the
\* pipeline has no text, confidence 0 and the last error captured from a
\* backend, and the error processAncientText raises carries that message.
C6_LastErrorSurfaced ==
    Returned /\ Exhausted /\ ocr.lastError # NoMsg =>
      /\ ocr.result.text = <<>>
      /\ ocr.result.confidence = 0
      /\ ocr.result.error = ocr.lastError
      /\ ocr.out = "throw"
           => ocr.thrown = <<"Failed to extract text from image.", " ">> \o ocr.lastError

----------------------------------------------------------------------------
(* Properties of the translation generator (SpecTranslate) *)

\* C10: with a text and a backend, the configurations are tried in list
\* order, each at most once; every failure goes on to the next one, and the
\* first successful response with output ends the chain with that output, a
\* non-empty string, and confidence 0.88.
C10_TranslationChain ==
    tr.pc = "done" /\ Truthy(tr.text) /\ env.geminiKey =>
      LET n == Len(tr.calls) IN
        /\ n <= NumTranslationConfigs
        /\ \A k \in DOMAIN tr.calls : tr.calls[k] = k
        /\ \A k \in 1..(n - 1) : ~(ResponseOk(tr.resps[k]) /\ Truthy(tr.resps[k].text))
        /\ tr.result.source = "backend"
             => /\ ResponseOk(tr.resps[n]) /\ Truthy(tr.resps[n].text)
                /\ Truthy(tr.result.translation)
                /\ tr.result.confidence = Conf(TranslationConfidence, 1)
        /\ tr.result.source # "backend" => n = NumTranslationConfigs

----------------------------------------------------------------------------
(* Properties of the batch driver (SpecBatch) *)

Rejected == {u \in Runs : run[u].outcome = "rejected"}

\* C7: in both modes every upload of the batch has exactly one entry, its
\* own: failed if its run threw, success if it returned; with 5 runs,
\* maxConcurrent 2 and run 3 alone throwing, there are 4 success entries and
\* 1 failed entry, and runs 1, 2, 4 and 5 report success.
C7_FailureIsolated ==
    drv.pc = "done" /\ drv.status = 200 =>
      /\ Len(drv.results) = Len(drv.uploads)
      /\ \A k \in DOMAIN drv.uploads :
           LET u == drv.uploads[k] IN
             /\ drv.results[k].uploadId = u
             /\ Settled(run[u])
             /\ run[u].outcome = "rejected" <=> drv.results[k].status = "failed"
             /\ run[u].outcome = "fulfilled" <=> drv.results[k].status = "success"
      /\ Len(drv.uploads) = 5 /\ drv.maxConcurrent = 2 /\ Rejected = {3}
           => /\ drv.processed = 4
              /\ drv.failed = 1
              /\ \A u \in {1, 2, 4, 5} : drv.results[u].status = "success"

\* the scenario: 5 runs in chunks of 2, run 3 alone threw
C7_Witness ==
    /\ drv.pc = "done"
    /\ drv.parallel
    /\ drv.maxConcurrent = 2
    /\ Len(drv.uploads) = 5
    /\ Rejected = {3}
    /\ drv.processed = 4
    /\ drv.failed = 1

InFlight == {u \in Runs : run[u].pc \notin {"idle", "done"}}

\* C8: in parallel mode at most maxConcurrent runs are in flight, and a run of
\* a chunk has started only if every run of the chunks before it has settled.
C8_ChunkedConcurrency ==
    drv.parallel =>
      /\ Cardinality(InFlight) <= drv.maxConcurrent
      /\ \A k \in DOMAIN drv.batches :
           \A j \in DOMAIN drv.batches[k] :
             run[drv.batches[k][j]].pc # "idle"
               => \A k2 \in 1..(k - 1) :
                    \A j2 \in DOMAIN drv.batches[k2] :
                      Settled(run[drv.batches[k2][j2]])

\* the second chunk of two is in flight after a run of the first was rejected
C8_Witness ==
    /\ drv.parallel
    /\ drv.maxConcurrent = 2
    /\ drv.pc = "allSettled"
    /\ drv.bi = 2
    /\ Cardinality(InFlight) = 2
    /\ run[1].outcome = "rejected"

----------------------------------------------------------------------------
(* Properties of the translation fallback (SpecTranslate) *)

\* a configuration answered successfully with output
BackendSucceeded ==
    \E k \in DOMAIN tr.resps : ResponseOk(tr.resps[k]) /\ Truthy(tr.resps[k].text)

\* every configuration was called and none succeeded
EveryConfigFailed ==
    Len(tr.calls) = NumTranslationConfigs /\ ~BackendSucceeded

\* the templated composition of a text and its glyphs
Template(text, glyphs) ==
    <<"Translation of ", text, " Individual characters: ",
      [k \in 1..Len(glyphs) |-> <<glyphs[k].symbol, glyphs[k].meaning>>]>>

\* C11: for a text that is a key of the phrase table, the result is the
\* table's string with confidence 0.90 exactly when no backend is configured
\* or every configuration failed; when a configuration succeeded the result
\* is not the table's.
C11_PhraseTable ==
    tr.pc = "done" /\ tr.text \in DOMAIN commonTranslations =>
      LET fromTable == /\ tr.result.translation = <<commonTranslations[tr.text]>>
                       /\ tr.result.confidence = Conf(PhraseConfidence, 1)
      IN  /\ fromTable <=> (~env.geminiKey \/ EveryConfigFailed)
          /\ BackendSucceeded => tr.result.translation # <<commonTranslations[tr.text]>>

\* the table answered after all four configurations failed
C11_Witness ==
    /\ tr.pc = "done"
    /\ tr.text = DaoFaZiRan
    /\ env.geminiKey
    /\ EveryConfigFailed
    /\ tr.result.translation = <<commonTranslations[DaoFaZiRan]>>

C13_TemplatedScenario ==
    /\ tr.pc = "done"
    /\ tr.text = DaoFaZiRan
    /\ ~env.geminiKey
    /\ Len(tr.glyphs) = 4
    /\ \A k \in DOMAIN tr.glyphs : tr.glyphs[k].confidence = RecognizedConfidence
    => /\ tr.result.translation = Template(tr.text, tr.glyphs)
       /\ tr.result.confidence.num = RecognizedConfidence * tr.result.confidence.den

----------------------------------------------------------------------------
(* getCharacterMeanings, request by request.  uniqueChars is a list of     *)
(* mg.n distinct Chinese characters, named here by their index in it;      *)
(* mg.meanings is the set of those that have a meaning so far.             *)

MaxUniqueChars == 41

batchSize == 20

\* What a request to the semantic service can come to:
\*   "status"       a status that is not 2xx
\*   "throw"        a transport error, a timeout, a body that is not JSON
\*   "nojson"       a text that holds no {...}
\*   "json-all"     a JSON object with a meaning for every character asked
\*   "json-some"    a JSON object with a meaning for the first character
\*   "json-none"    a JSON object with no usable meaning
\*   "salvage-some" a {...} that JSON.parse rejects, with a line that the
\*                  pattern "char": "meaning" matches for the first character
\*   "salvage-none" a {...} that JSON.parse rejects and no such line
MeaningAnswerKinds ==
    {"status", "throw", "nojson", "json-all", "json-some", "json-none",
     "salvage-some", "salvage-none"}

\* the characters of from..to that the answer gives a meaning to
ParsedMeanings(answer, from, to) ==
    CASE answer = "json-all" -> from..to
      [] answer \in {"json-some", "salvage-some"} -> {from}
      [] OTHER -> {}

\* the test before the loop over batches
NeedsBatches(meanings, n, key) == meanings = {} /\ n > 0 /\ key

MeaningsStart ==
    /\ mg.pc = "cm_start"
    /\ mg' = [mg EXCEPT !.pc = IF mg.n = 0 THEN "cm_done"
                               ELSE IF env.geminiKey THEN "cm_bulk"
                               ELSE "cm_done"]
    /\ UNCHANGED <<env, ocr, tr, store, run, drv, nr>>

MeaningsBulk ==
    /\ mg.pc = "cm_bulk"
    /\ \E answer \in MeaningAnswerKinds :
         LET m == ParsedMeanings(answer, 1, mg.n) IN
           mg' = [mg EXCEPT !.bulk = answer,
                            !.meanings = m,
                            !.i = 0,
                            !.pc = IF NeedsBatches(m, mg.n, env.geminiKey)
                                   THEN "cm_batch" ELSE "cm_done"]
    /\ UNCHANGED <<env, ocr, tr, store, run, drv, nr>>

MeaningsBatch ==
    /\ mg.pc = "cm_batch"
    /\ mg.i < mg.n
    /\ \E answer \in MeaningAnswerKinds \ {"json-none", "salvage-none"} :
         LET from == mg.i + 1
             to == IF mg.i + batchSize < mg.n THEN mg.i + batchSize ELSE mg.n
         IN  mg' = [mg EXCEPT !.batches = Append(@, [from |-> from, to |-> to,
                                                     answer |-> answer]),
                              !.meanings = @ \cup ParsedMeanings(answer, from, to),
                              !.i = @ + batchSize]
    /\ UNCHANGED <<env, ocr, tr, store, run, drv, nr>>

MeaningsReturn ==
    /\ mg.pc = "cm_batch"
    /\ mg.i >= mg.n
    /\ mg' = [mg EXCEPT !.pc = "cm_done"]
    /\ UNCHANGED <<env, ocr, tr, store, run, drv, nr>>

InitMeanings ==
    /\ env \in Envs
    /\ ocr = OcrIdle
    /\ tr = TrIdle
    /\ store = EmptyStore
    /\ run = <<>>
    /\ drv = DrvIdle
    /\ nr = NrIdle
    /\ mg \in {[MgIdle EXCEPT !.pc = "cm_start", !.n = n] : n \in 0..MaxUniqueChars}

NextMeanings ==
    \/ MeaningsStart
    \/ MeaningsBulk
    \/ MeaningsBatch
    \/ MeaningsReturn

SpecMeanings == InitMeanings /\ [][NextMeanings]_vars

----------------------------------------------------------------------------
(* SpecStages: one call of one of extractTextFromImage, generateTranslation,*)
(* getCharacterMeanings and matchGlyphs, under every behaviour of the      *)
(* services it asks.                                                       *)

InitStages ==
    /\ env \in Envs
    /\ store = EmptyStore
    /\ run = <<>>
    /\ drv = DrvIdle
    /\ nr = NrIdle
    /\ \/ /\ ocr = [OcrIdle EXCEPT !.pc = "start"]
          /\ tr = TrIdle
          /\ mg = MgIdle
       \/ /\ ocr = OcrIdle
          /\ tr \in {[TrIdle EXCEPT !.pc = "start", !.text = t, !.glyphs = g] :
                       t \in TranslateTexts, g \in TranslateGlyphs}
          /\ mg = MgIdle
       \/ /\ ocr = OcrIdle
          /\ tr = TrIdle
          /\ mg \in {[MgIdle EXCEPT !.pc = "cm_start", !.n = n] : n \in 0..MaxUniqueChars}
       \/ /\ ocr = OcrIdle
          /\ tr = TrIdle
          /\ mg \in {[MgIdle EXCEPT !.pc = "start", !.text = t, !.dbGlyphs = g,
                                    !.key = env.geminiKey, !.ai = a, !.lr = l] :
                       t \in MatchTexts, g \in {d \in MatchStores : Len(d) <= 1},
                       a \in IF env.geminiKey THEN MeaningAnswers ELSE {<<>>},
                       l \in IF env.geminiKey THEN LookupAnswers ELSE {<<>>}}

NextStages ==
    \/ ExtractStart
    \/ GeminiEnter
    \/ GeminiTry
    \/ GeminiExhausted
    \/ MethodDone
    \/ PostProcess
    \/ ExtractFailed
    \/ TranslateStart
    \/ TranslateTry
    \/ TranslateExhausted
    \/ TranslateFallback
    \/ MeaningsStart
    \/ MeaningsBulk
    \/ MeaningsBatch
    \/ MeaningsReturn
    \/ MatchCall

SpecStages == InitStages /\ [][NextStages]_vars

----------------------------------------------------------------------------
(* SpecPartition: the partition loop of a parallel batch request, for the  *)
(* integers a request can give as options.maxConcurrent.  Init is the      *)
(* state of the driver after findMany returned 1 to MaxBatchUploads rows.  *)

InitPartition ==
    /\ env \in {e \in Envs : ~e.geminiKey /\ ~e.devFallback}
    /\ ocr = OcrIdle
    /\ tr = TrIdle
    /\ store = StoreOf(MaxBatchUploads, 0)
    /\ run = [r \in 1..MaxBatchUploads |-> RunIdle]
    /\ mg = MgIdle
    /\ nr = NrIdle
    /\ drv \in {[DrvIdle EXCEPT !.uploadIds = 1..n, !.parallel = TRUE,
                                !.maxConcurrent = mc, !.uploads = IdsInOrder(1..n),
                                !.pc = "partition"] :
                  n \in 1..MaxBatchUploads, mc \in (0 - MaxMaxConcurrent)..(MaxMaxConcurrent + 1)}

SpecPartition == InitPartition /\ [][BatchPartition]_vars

----------------------------------------------------------------------------
(* SpecMatch: one call of matchGlyphs.  Without a key the semantic service *)
(* answers nothing.                                                        *)

InitMatch ==
    /\ env \in Envs
    /\ ocr = OcrIdle
    /\ tr = TrIdle
    /\ store = EmptyStore
    /\ run = <<>>
    /\ drv = DrvIdle
    /\ nr = NrIdle
    /\ mg \in {[MgIdle EXCEPT !.pc = "start", !.text = t, !.dbGlyphs = g, !.key = env.geminiKey,
                              !.ai = a, !.lr = l] :
                 t \in MatchTexts, g \in MatchStores,
                 a \in IF env.geminiKey THEN MeaningAnswers ELSE {<<>>},
                 l \in IF env.geminiKey THEN LookupAnswers ELSE {<<>>}}

SpecMatch == InitMatch /\ [][MatchCall]_vars

----------------------------------------------------------------------------
(* SpecGrm: the damage-detection policy asked about a glyph, and then      *)
(* about the same glyph with less confidence or a smaller box.             *)

InitGrm ==
    /\ env \in {e \in Envs : ~e.geminiKey}
    /\ ocr = OcrIdle
    /\ tr = TrIdle
    /\ store = EmptyStore
    /\ run = <<>>
    /\ drv = DrvIdle
    /\ mg = MgIdle
    /\ nr \in {[NrIdle EXCEPT !.pc = "eval", !.symbol = sy, !.confidence = c,
                              !.boundingBox = b] :
                 sy \in GrmSymbols, c \in GrmConfidences, b \in GrmBoxes}

NextGrm ==
    \/ GrmEvaluate
    \/ GrmLowerConfidence
    \/ GrmShrinkWidth
    \/ GrmShrinkHeight

SpecGrm == InitGrm /\ [][NextGrm]_vars

----------------------------------------------------------------------------
(* SpecNoKey: a process without GOOGLE_GEMINI_API_KEY in which             *)
(* extractTextFromImage, generateTranslation and matchGlyphs are each      *)
(* called once.  mg.ai and mg.lr are what the semantic service would       *)
(* answer if it were asked.                                                *)

InitNoKey ==
    /\ env \in {e \in Envs : ~e.geminiKey}
    /\ ocr = [OcrIdle EXCEPT !.pc = "start"]
    /\ tr \in {[TrIdle EXCEPT !.pc = "start", !.text = t, !.glyphs = g] :
                 t \in TranslateTexts, g \in TranslateGlyphs}
    /\ store = EmptyStore
    /\ run = <<>>
    /\ drv = DrvIdle
    /\ nr = NrIdle
    /\ mg \in {[MgIdle EXCEPT !.pc = "start", !.text = t, !.dbGlyphs = g, !.key = FALSE,
                              !.ai = a, !.lr = l] :
                 t \in MatchTexts, g \in {d \in MatchStores : Len(d) <= 1},
                 a \in MeaningAnswers, l \in LookupAnswers}

NextNoKey ==
    \/ ExtractStart
    \/ ExtractFailed
    \/ PipelineExtractCheck
    \/ TranslateStart
    \/ TranslateFallback
    \/ MatchCall

SpecNoKey == InitNoKey /\ [][NextNoKey]_vars

----------------------------------------------------------------------------
(* SpecFallback: the text extraction under every setting of NODE_ENV and   *)
(* ENABLE_OCR_FALLBACK.  env carries the two settings next to the          *)
(* devFallback that processAncientText computes from them.                 *)

NodeEnvs == {"development", "production", "test"}

FallbackFlags == {"true", "false", "unset"}

\* a sample substituted wherever the flag is set
DevFallbackEnabledByFlagAlone(nodeEnv, flag) == flag = "true"

DevFallbackEnabled(nodeEnv, flag) == nodeEnv = "development" /\ flag = "true"

InitFallback ==
    /\ env \in {[geminiKey |-> k, devFallback |-> DevFallbackEnabled(n, f),
                 nodeEnv |-> n, fallbackFlag |-> f] :
                 k \in BOOLEAN, n \in NodeEnvs, f \in FallbackFlags}
    /\ ocr = [OcrIdle EXCEPT !.pc = "start"]
    /\ tr = TrIdle
    /\ store = EmptyStore
    /\ run = <<>>
    /\ drv = DrvIdle
    /\ mg = MgIdle
    /\ nr = NrIdle

SpecFallback == InitFallback /\ [][NextOCR]_vars

----------------------------------------------------------------------------
(* SpecReplay: processAncientText called twice on the same image, with the *)
(* same rows in the Glyph table and the same answers of the backends.  The *)
(* answers are fixed by Init: ocr.result is what extractTextFromImage      *)
(* returns for the image, tr.result what generateTranslation returns for   *)
(* its text, mg.ai and mg.lr what the semantic service answers.            *)

\* a pipeline that uses up the rows of the Glyph table it reads
PipelineStoreConsumed(st, glyphs) == [st EXCEPT !.glyphs = <<>>]

\* the store after processAncientText: it reads the Glyph table and writes
\* nothing
PipelineStore(st, glyphs) == st

ReplayExtract(r) ==
    /\ run[r].pc = "extract"
    /\ LET v == ExtractionVerdict(ocr.result, env.devFallback)
           rn == [CallStage(run[r], "ocr") EXCEPT
                    !.extraction = IF Truthy(ocr.result.text) THEN "text" ELSE "none"]
       IN  run' = [run EXCEPT ![r] =
                     CASE v = "text" ->
                            [CallStage(rn, "translation") EXCEPT
                               !.text = ocr.result.text, !.method = ocr.result.method,
                               !.context = tr.result.translation, !.pc = "match"]
                       [] v = "fallback-dev" ->
                            [rn EXCEPT !.text = DaoFaZiRan, !.glyphs = <<>>,
                                       !.scriptType = DefaultScript,
                                       !.method = "fallback-dev",
                                       !.pc = "done", !.outcome = "returned"]
                       [] OTHER ->
                            [rn EXCEPT !.error = "extraction", !.pc = "done",
                                       !.outcome = "rejected"]]
    /\ UNCHANGED <<env, ocr, tr, store, drv, mg, nr>>

ReplayMatch(r) ==
    /\ run[r].pc = "match"
    /\ LET glyphs == MatchGlyphs(run[r].text, store.glyphs,
                                 CharacterMeanings(env.geminiKey, mg.ai), mg.lr,
                                 env.geminiKey)
       IN  /\ run' = [run EXCEPT ![r] =
                        [CallStage(run[r], "match") EXCEPT
                           !.glyphs = glyphs,
                           !.scriptType = IF Len(glyphs) > 0
                                          THEN ScriptTypeOf(store, glyphs)
                                          ELSE DefaultScript,
                           !.context = <<>>, !.pc = "done", !.outcome = "returned"]]
           /\ store' = PipelineStore(store, glyphs)
    /\ UNCHANGED <<env, ocr, tr, drv, mg, nr>>

InitReplay ==
    /\ env \in Envs
    /\ ocr \in {[OcrIdle EXCEPT !.result = res] : res \in OcrOutcomes(env)}
    /\ tr \in {[TrIdle EXCEPT !.result = t] :
                 t \in TranslationOutcomes(env, ocr.result.text, <<>>)}
    /\ store \in {[EmptyStore EXCEPT !.scripts = <<ScriptRow(DefaultScript)>>,
                                     !.glyphs = g] :
                    g \in {d \in MatchStores : Len(d) <= 1}}
    /\ mg \in {[MgIdle EXCEPT !.ai = a, !.lr = l] :
                 a \in MeaningAnswers, l \in LookupAnswers}
    /\ run = [r \in 1..2 |-> [RunIdle EXCEPT !.kind = "pipeline", !.pc = "extract"]]
    /\ drv = DrvIdle
    /\ nr = NrIdle

NextReplay ==
    \/ \E r \in Runs : ReplayExtract(r)
    \/ \E r \in Runs : ReplayMatch(r)

SpecReplay == InitReplay /\ [][NextReplay]_vars

----------------------------------------------------------------------------
(* Properties of the glyph matcher (SpecMatch) *)

Matches == {mg.result[j] : j \in DOMAIN mg.result}

\* the semantic service supplied a meaning for the character
HasAiMeaning(sym) == sym \in DOMAIN mg.ai /\ ~IsNull(mg.ai[sym])

\* the row the character was found at, 0 when the store has none
FoundAt(sym) == MatchedGlyph(mg.dbGlyphs, sym)

\* the meaning the store holds for a row: its description, else its name
StoredMeaning(g) == IF ~IsNull(g.description) THEN g.description ELSE g.name

C15_AbsentCharacter ==
    mg.pc = "done" =>
      /\ \A m \in Matches :
           FoundAt(m.symbol) = 0 /\ ~HasAiMeaning(m.symbol) =>
             IF mg.key /\ m.symbol \in DOMAIN mg.lr
             THEN m.confidence = LastResortConfidence /\ m.meaning = mg.lr[m.symbol]
             ELSE m.confidence = RecognizedConfidence /\ m.meaning = MeaningNotAvailable
      /\ mg.text = DaoFaZiRan /\ mg.dbGlyphs = <<>> /\ ~mg.key =>
           /\ Len(mg.result) = 4
           /\ \A j \in 1..4 :
                /\ mg.result[j].symbol = DaoFaZiRan[j]
                /\ mg.result[j].confidence = RecognizedConfidence
                /\ mg.result[j].meaning = MeaningNotAvailable

\* the scenario, and a lookup that succeeded
C15_Witness ==
    /\ mg.pc = "done"
    /\ \/ mg.text = DaoFaZiRan /\ mg.dbGlyphs = <<>> /\ ~mg.key /\ Len(mg.result) = 4
       \/ \E m \in Matches : FoundAt(m.symbol) = 0 /\ m.confidence = LastResortConfidence

\* C16: whatever the store holds, every match has a confidence among 0.60,
\* 0.70, 0.75, 0.85 or within [0.75, 1.0].
C16_ConfidenceRange ==
    \A m \in Matches :
      \/ m.confidence \in {RecognizedConfidence, LastResortConfidence, FoundConfidence,
                            AiConfidence}
      \/ m.confidence >= FoundConfidence /\ m.confidence <= 100

\* C17: every match has a meaning that is neither null nor empty; without a
\* real meaning from the service or the store it is one of the sentinels.
C17_MeaningNeverNull ==
    mg.pc = "done" =>
      \A m \in Matches :
        /\ ~IsNull(m.meaning)
        /\ m.meaning.kind # "real" \/ m.meaning.text # ""
        /\ ~HasAiMeaning(m.symbol) /\ ~(mg.key /\ m.symbol \in DOMAIN mg.lr) =>
             IF FoundAt(m.symbol) = 0
             THEN m.meaning = MeaningNotAvailable
             ELSE LET stored == StoredMeaning(mg.dbGlyphs[FoundAt(m.symbol)]) IN
                    IF ~IsNull(stored) /\ ~IsPlaceholder(stored)
                    THEN m.meaning = stored
                    ELSE m.meaning = UnknownCharacter

\* a character found with an empty description and no name, and one the
\* service answered with an empty meaning, both carry a sentinel
C17_Witness ==
    /\ mg.pc = "done"
    /\ \E m \in Matches :
         /\ FoundAt(m.symbol) # 0
         /\ mg.dbGlyphs[FoundAt(m.symbol)].description = EmptyString
         /\ mg.dbGlyphs[FoundAt(m.symbol)].name = Null
         /\ m.symbol \in DOMAIN mg.ai
         /\ mg.ai[m.symbol] = EmptyString
         /\ m.meaning = UnknownCharacter

\* C18: the positions of a result are strictly increasing in output order
\* and are the indices of the characters that are no punctuation in the
\* text stripped of whitespace.
C18_Positions ==
    mg.pc = "done" =>
      LET chars == StripWhitespace(mg.text) IN
        /\ \A j, k \in DOMAIN mg.result :
             j < k => mg.result[j].position < mg.result[k].position
        /\ \A j \in DOMAIN mg.result :
             /\ mg.result[j].position + 1 \in DOMAIN chars
             /\ chars[mg.result[j].position + 1] = mg.result[j].symbol
        /\ {mg.result[j].position : j \in DOMAIN mg.result}
             = {i - 1 : i \in {n \in DOMAIN chars : chars[n] \notin Punctuation}}

\* punctuation left a gap: positions 0, 2 and 3
C18_Witness ==
    /\ mg.pc = "done"
    /\ Len(mg.result) = 3
    /\ mg.result[1].position = 0
    /\ mg.result[2].position = 2
    /\ mg.result[3].position = 3

----------------------------------------------------------------------------
(* Properties of the damage-detection policy (SpecGrm) *)

\* C19: needsReconstruction is true whenever the symbol is missing or
\* empty, or the confidence is below 0.7, or the width or the height of the
\* bounding box is below 10px, and false when none of these holds; a box
\* of width 5 and height 5 at confidence 0.95 is flagged.
C19_Policy ==
    nr.pc = "ready" =>
      /\ nr.result = "yes" <=>
            \/ nr.symbol = ""
            \/ nr.confidence < 70
            \/ /\ nr.boundingBox.type = "object"
               /\ \/ nr.boundingBox.box.width < 10
                  \/ nr.boundingBox.box.height < 10
      /\ nr.result \in {"yes", "no"}
      /\ ( /\ nr.boundingBox.type = "object"
           /\ nr.boundingBox.box.width = 5
           /\ nr.boundingBox.box.height = 5
           /\ nr.confidence = 95 ) => nr.result = "yes"

\* the 5 by 5 box at confidence 0.95 with a symbol was flagged
C19_Witness ==
    /\ nr.pc = "ready"
    /\ nr.symbol = "dao"
    /\ nr.confidence = 95
    /\ nr.boundingBox.type = "object"
    /\ nr.boundingBox.box.width = 5
    /\ nr.boundingBox.box.height = 5
    /\ nr.result = "yes"

\* C20: a flagged glyph stays flagged when its confidence is lowered or its
\* bounding box's width or height is shrunk.
C20_Monotonic ==
    nr.pc = "ready" /\ nr.prior = "yes" => nr.result = "yes"

\* a glyph flagged at confidence 0.69 was asked about again at confidence 0
C20_Witness ==
    /\ nr.pc = "ready"
    /\ nr.prior = "yes"
    /\ nr.result = "yes"
    /\ nr.symbol = "dao"
    /\ nr.confidence = 0
    /\ nr.boundingBox.type = "object"
    /\ nr.boundingBox.box.width = 50
    /\ nr.boundingBox.box.height = 50

\* C24: when a run has sighted a symbol and its match carries a real
\* meaning, the symbol's glyph row holds a real meaning once the run has
\* found, created or updated it, whichever path wrote the row; and no glyph
\* row stores a sentinel of the matcher as its meaning.
C24_PlaceholderReplaced ==
    /\ \A r \in Runs :
         run[r].pc \in {"r_match", "b_match"}
           /\ HasValidMeaning(run[r].glyphs[run[r].gi].meaning)
           => LET d == store.glyphs[run[r].glyphId].description
              IN  ~IsNull(d) /\ ~IsPlaceholder(d)
    /\ \A k \in DOMAIN store.glyphs :
         store.glyphs[k].description.kind \notin {"Unknown character", "not available"}

----------------------------------------------------------------------------
(* SpecVersions: calls of processUpload on a store that a request to the   *)
(* process route has left behind: upload 1 is COMPLETED with the matches   *)
(* of a text of two characters that had no meaning, upload 2 is pending.   *)
(* The store has the default script, so no call comes to create one.       *)

CompletedGlyphs ==
    <<GlyphMatch("zi", RecognizedConfidence, 0, UnknownCharacter),
      GlyphMatch("ran", RecognizedConfidence, 1, UnknownCharacter)>>

CompletedStore(faults) ==
    [uploads |-> <<[status |-> "COMPLETED", scriptType |-> ""],
                   [status |-> "PENDING", scriptType |-> ""]>>,
     scripts |-> <<ScriptRow(DefaultScript)>>,
     glyphs |-> [k \in 1..2 |-> RouteGlyphRow(1, CompletedGlyphs[k])],
     matches |-> [k \in 1..2 |-> RouteMatchRow(1, k, CompletedGlyphs[k])],
     translations |-> <<TranslationRow(1, <<"zi", "ran">>,
                                       FallbackTranslation(<<"zi", "ran">>, CompletedGlyphs))>>,
     versions |-> <<>>, faults |-> faults]

InitVersions ==
    /\ env \in {e \in Envs : e.geminiKey}
    /\ ocr = OcrIdle
    /\ tr = TrIdle
    /\ store \in {CompletedStore(f) : f \in 0..MaxFaults}
    /\ run = [r \in 1..NumRuns |-> RunIdle]
    /\ drv = DrvIdle
    /\ mg = MgIdle
    /\ nr = NrIdle

NextVersions ==
    \/ \E r \in Runs : ProcessUploadCall(r)
    \/ \E r \in Runs : BatchFindUpload(r)
    \/ \E r \in Runs : BatchCountVersions(r)
    \/ \E r \in Runs : BatchCreateVersionCompleted(r)
    \/ \E r \in Runs : BatchSetProcessing(r)
    \/ \E r \in Runs : PipelineExtract(r)
    \/ \E r \in Runs : PipelineMatch(r)
    \/ \E r \in Runs : PipelineScriptType(r)
    \/ \E r \in Runs : BatchSetCompleted(r)
    \/ \E r \in Runs : BatchFindGlyph(r)
    \/ \E r \in Runs : BatchFindScript(r)
    \/ \E r \in Runs : BatchCreateGlyph(r)
    \/ \E r \in Runs : BatchCreateMatch(r)
    \/ \E r \in Runs : BatchCreateVersion(r)
    \/ \E r \in Runs : BatchFailed(r)
    \/ \E r \in Runs : StoreFault(r)

SpecVersions == InitVersions /\ [][NextVersions]_vars

----------------------------------------------------------------------------
(* SpecRoute: requests to the process route for one upload, with the       *)
(* semantic service configured.  Three requests overlap: the first matched *)
(* its text while the store had no glyph, and got the character's meaning  *)
(* from the single-character lookup; the second, for which the service     *)
(* gave no meaning, then ran to its end and left a placeholder row; the    *)
(* third is yet to be made.  The specification starts where the second has *)
(* ended and the first is at its next await, after matchGlyphs.  The       *)
(* default script exists and the store does not fail, so no request comes  *)
(* to create a script or to the outer catch.                               *)

\* the match of the second request, and the rows it left
PlaceholderGlyphs == <<GlyphMatch("dao", RecognizedConfidence, 0, MeaningNotAvailable)>>

PlaceholderStore ==
    [uploads |-> <<[status |-> "COMPLETED", scriptType |-> ""]>>,
     scripts |-> <<ScriptRow(DefaultScript)>>,
     glyphs |-> <<RouteGlyphRow(1, PlaceholderGlyphs[1])>>,
     matches |-> <<RouteMatchRow(1, 1, PlaceholderGlyphs[1])>>,
     translations |-> <<TranslationRow(1, <<"dao">>,
                                       FallbackTranslation(<<"dao">>, PlaceholderGlyphs))>>,
     versions |-> <<>>, faults |-> 0]

\* the first request, after matchGlyphs returned
RouteRunAfterMatch ==
    [RunIdle EXCEPT !.kind = "route", !.bodyUsed = TRUE, !.uploadId = 1,
                    !.writes = <<"PROCESSING">>, !.extraction = "text",
                    !.text = <<"dao">>, !.method = GeminiStep(Ok(<<"dao">>), NoMsg).result.method,
                    !.glyphs = MatchGlyphs(<<"dao">>, <<>>, <<>>,
                                           "dao" :> Real("AI meaning"), TRUE),
                    !.stages = <<"ocr", "translation", "match">>,
                    !.pc = "scriptType"]

InitRoute ==
    /\ env \in {e \in Envs : e.geminiKey}
    /\ ocr = OcrIdle
    /\ tr = TrIdle
    /\ store = PlaceholderStore
    /\ run = <<RouteRunAfterMatch, RunIdle>>
    /\ drv = DrvIdle
    /\ mg = MgIdle
    /\ nr = NrIdle

NextRoute ==
    \/ \E r \in Runs : RouteRequest(r)
    \/ \E r \in Runs : RouteFindUpload(r)
    \/ \E r \in Runs : RouteSetProcessing(r)
    \/ \E r \in Runs : RouteDeleteMatches(r)
    \/ \E r \in Runs : RouteDeleteTranslations(r)
    \/ \E r \in Runs : PipelineExtract(r)
    \/ \E r \in Runs : PipelineMatch(r)
    \/ \E r \in Runs : PipelineScriptType(r)
    \/ \E r \in Runs : RouteAiFailed(r)
    \/ \E r \in Runs : RouteFindScript(r)
    \/ \E r \in Runs : RouteFindGlyph(r)
    \/ \E r \in Runs : RouteCreateGlyph(r)
    \/ \E r \in Runs : RouteUpdateGlyph(r)
    \/ \E r \in Runs : RouteCreateMatch(r)
    \/ \E r \in Runs : RouteCreateTranslation(r)
    \/ \E r \in Runs : RouteSetCompleted(r)

SpecRoute == InitRoute /\ [][NextRoute]_vars

----------------------------------------------------------------------------
(* Properties of the stored records (Spec) *)

\* the rows of an upload's reconstruction versions, in creation order
VersionsOf(u) == SelectSeq(store.versions, LAMBDA v : v.uploadId = u)

\* C21: for each upload the version numbers of its reconstruction versions
\* are pairwise distinct and increasing in creation order, each the count
\* of the upload's prior versions plus one, after first processing, re-runs
\* on a completed upload, re-processing and concurrent batch runs.
C21_VersionNumbers ==
    \A u \in UploadIds(store) :
      \A k \in DOMAIN VersionsOf(u) : VersionsOf(u)[k].versionNumber = k

----------------------------------------------------------------------------
(* Properties of the reconstruction versions (SpecVersions) *)

\* C22: every reconstruction version the batch driver creates has at least
\* one member, and its confidence is the arithmetic mean of its members'
\* confidences.
C22_VersionMean ==
    \A k \in DOMAIN store.versions :
      LET v == store.versions[k]
          n == Len(v.reconstructedGlyphs)
      IN  /\ n >= 1
          /\ v.confidence.den > 0
          /\ v.confidence.num * n = SumConfidence(v.reconstructedGlyphs) * v.confidence.den

\* a version of two members of confidences 0 and 0.80, and a version of the
\* fresh path
C22_Witness ==
    /\ \E k \in DOMAIN store.versions :
         /\ Len(store.versions[k].reconstructedGlyphs) = 2
         /\ store.versions[k].reconstructedGlyphs[1].confidence = 0
         /\ store.versions[k].reconstructedGlyphs[2].confidence = 80
    /\ \E k \in DOMAIN store.versions : store.versions[k].uploadId = 2

----------------------------------------------------------------------------
(* Properties of the glyph rows (SpecRoute) *)

\* the row holds a real meaning: one that is set and is no placeholder
HoldsRealMeaning(g) == ~IsNull(g.description) /\ ~IsPlaceholder(g.description)

\* C23: no step of any run overwrites the meaning of a glyph row that holds
\* a real meaning, and no step lowers the confidence of a glyph row.
C23_NeverDowngraded ==
    [][\A k \in DOMAIN store.glyphs :
         /\ k \in DOMAIN store'.glyphs
         /\ store'.glyphs[k].confidence >= store.glyphs[k].confidence
         /\ HoldsRealMeaning(store.glyphs[k])
              => store'.glyphs[k].description = store.glyphs[k].description]_vars

----------------------------------------------------------------------------
(* Properties of a process without a credential (SpecNoKey) *)

----------------------------------------------------------------------------
(* Properties of the text extraction (SpecOCR), continued *)

\* the answer of configuration k was a success with no usable text
BlankAnswer(k) ==
    /\ ocr.resps[k].kind = "ok"
    /\ Trim(ocr.resps[k].text) = <<>>

\* C27: a configuration whose successful response holds no usable text
\* (empty, or blank once trimmed) is a soft failure: the loop goes on to the
\* next configuration and no result is returned from that response.
C27_BlankIsSoftFailure ==
    \A k \in DOMAIN ocr.resps :
      BlankAnswer(k) /\ k = Len(ocr.resps) =>
        /\ ocr.gem.confidence = 0
        /\ k < NumOcrConfigs => ocr.pc = "loop" /\ ocr.i = k + 1

\* extractTextFromImage has returned a result that went through the
\* post-processing pass
PostProcessedResult ==
    /\ ocr.pc \in {"extracted", "done"}
    /\ ocr.result.method = "gemini"

\* C28: the post-processing pass never lowers the confidence of the
\* extraction and never changes its text, whether the auxiliary model
\* answers, fails or times out; a raise of the confidence is of at most 5
\* hundredths and gives at most 95, whatever text the pass returns.
C28_PostProcessingKeepsResult ==
    /\ PostProcessedResult =>
         /\ ocr.result.text = ocr.gem.text
         /\ ocr.result.confidence >= ocr.gem.confidence
         /\ ocr.result.confidence <= ocr.gem.confidence + 5
         /\ ocr.result.confidence > ocr.gem.confidence => ocr.result.confidence <= 95
    /\ ocr.pc = "post" =>
         \A t \in Texts :
           LET p == PostProcessed(ocr.gem, t) IN
             /\ p.confidence >= ocr.gem.confidence
             /\ p.confidence <= ocr.gem.confidence + 5
             /\ p.confidence > ocr.gem.confidence => p.confidence <= 95

\* a text extracted by the second configuration has gone through the pass
C28_Witness ==
    /\ PostProcessedResult
    /\ Len(ocr.calls) = 2
    /\ Truthy(ocr.result.text)
    /\ ocr.result.confidence = GeminiConfidence

----------------------------------------------------------------------------
(* Properties of the translation (SpecTranslate), continued *)

\* C29: generateTranslation called with an empty text returns the fixed
\* apology with confidence 0 at once: it makes no backend call, with or
\* without a key, and its result depends on neither the phrase table nor
\* the glyph list.
C29_EmptyTextApology ==
    tr.text = <<>> /\ tr.pc # "idle" =>
      /\ tr.calls = <<>>
      /\ tr.pc \in {"start", "done"}
      /\ tr.pc = "done" =>
           /\ tr.result.translation =
                <<"Unable to extract text from image. Please ensure the image is clear and contains readable text.">>
           /\ tr.result.confidence = Conf(0, 1)
           /\ tr.result.source \notin {"table", "generic", "backend"}

\* the apology returned with a key set and a glyph list given
C29_Witness ==
    /\ tr.text = <<>>
    /\ tr.pc = "done"
    /\ env.geminiKey
    /\ tr.glyphs # <<>>
    /\ tr.result.translation = <<Apology>>

----------------------------------------------------------------------------
(* Properties of the development fallback (SpecFallback) *)

\* C30: the sample text is substituted only when the extraction produced no
\* text, NODE_ENV is development and ENABLE_OCR_FALLBACK is true; the
\* substituted result carries the method 'fallback-dev', which no extraction
\* result carries; under every other setting an extraction without text
\* throws.
C30_DevFallbackOnly ==
    ocr.pc = "done" =>
      /\ ocr.out = "fallback-dev" <=>
           /\ ~Truthy(ocr.result.text)
           /\ env.nodeEnv = "development"
           /\ env.fallbackFlag = "true"
      /\ ocr.out = "throw" <=>
           /\ ~Truthy(ocr.result.text)
           /\ ~(env.nodeEnv = "development" /\ env.fallbackFlag = "true")
      /\ ocr.out = "text" <=> Truthy(ocr.result.text)
      /\ ocr.result.method \in {"gemini", "fallback"}
      /\ ocr.out = "throw" <=> ocr.thrown # NoMsg

\* every configuration failed with a key set and the sample was substituted
C30_Witness ==
    /\ ocr.pc = "done"
    /\ ocr.out = "fallback-dev"
    /\ env.geminiKey
    /\ Len(ocr.calls) = NumOcrConfigs
    /\ ocr.thrown = NoMsg

----------------------------------------------------------------------------
(* Properties of the runs (Spec), continued *)

\* the symbols of a list of glyph matches, in order
SymbolsOf(glyphs) == [k \in DOMAIN glyphs |-> glyphs[k].symbol]

\* C31: when the development fallback substitutes the sample text, glyph
\* matching runs on it and the result of the run holds the glyph matches of
\* the sample text.
C31_SampleIsMatched ==
    \A r \in Runs :
      run[r].method = "fallback-dev" =>
        /\ \E k \in DOMAIN run[r].stages : run[r].stages[k] = "match"
        /\ SymbolsOf(run[r].glyphs) = DaoFaZiRan

----------------------------------------------------------------------------
(* Properties of a repeated pipeline (SpecReplay) *)

\* the raise of the verification pass, in hundredths
VerificationDelta == 5

\* how often a symbol occurs among the glyph matches
SymbolCount(glyphs, c) == Cardinality({k \in DOMAIN glyphs : glyphs[k].symbol = c})

----------------------------------------------------------------------------
(* Properties of getCharacterMeanings (SpecMeanings) *)

\* the batches that asked for character c
BatchesOf(c) == {k \in DOMAIN mg.batches : mg.batches[k].from <= c /\ c <= mg.batches[k].to}

\* every character was asked for in exactly one batch of 1 to 20 characters
Requeried ==
    /\ \A c \in 1..mg.n : Cardinality(BatchesOf(c)) = 1
    /\ \A k \in DOMAIN mg.batches :
         /\ mg.batches[k].to - mg.batches[k].from + 1 >= 1
         /\ mg.batches[k].to - mg.batches[k].from + 1 <= 20

\* C34: when the bulk request fails, or its output cannot be parsed as JSON,
\* getCharacterMeanings asks again for the distinct characters in batches of
\* at most 20, each character in exactly one batch, whatever batches fail.
\* Stated for the calls that end with a character still without a meaning.
C34_RequeryInBatches ==
    /\ mg.pc = "cm_done"
    /\ mg.bulk \in {"status", "throw", "nojson", "salvage-some", "salvage-none"}
    /\ mg.meanings # 1..mg.n
    => Requeried

----------------------------------------------------------------------------
(* Properties of the stages under failing services (SpecStages) *)

\* C33: whatever the services do (error status, timeout, transport error,
\* malformed JSON, unreadable image), no exception leaves
\* extractTextFromImage, generateTranslation or matchGlyphs: a request that
\* throws is followed by the next configuration or batch, and each call
\* ends with a result of its own, a fallback or the extraction failure.
C33_NoExceptionCrosses ==
    /\ \A k \in DOMAIN ocr.resps :
         Throws(ocr.resps[k]) \/ ocr.resps[k].kind = "err" => ocr.i > k
    /\ ocr.pc = "extracted" =>
         \/ ocr.result.method = "gemini" /\ Truthy(ocr.result.text)
         \/ /\ ocr.result.method = "fallback"
            /\ ocr.result.text = <<>>
            /\ ocr.result.confidence = 0
            /\ ocr.result.error # NoMsg
    /\ \A k \in DOMAIN tr.resps :
         Throws(tr.resps[k]) \/ tr.resps[k].kind = "err" => tr.i > k
    /\ tr.pc = "done" => tr.result.source \in {"apology", "backend", "table", "generic"}
    /\ \A k \in DOMAIN mg.batches :
         mg.batches[k].answer \in {"throw", "status"} => mg.i >= mg.batches[k].to
    /\ mg.pc = "cm_done" => mg.meanings \subseteq 1..mg.n
    /\ mg.pc = "done" =>
         /\ Len(mg.result) = Len(SelectSeq(StripWhitespace(mg.text),
                                           LAMBDA c : c \notin Punctuation))
         /\ \A j \in DOMAIN mg.result : ~IsNull(mg.result[j].meaning)

\* a translation whose four requests threw, timed out or answered malformed
\* JSON, ended by the fallback
C33_Witness ==
    /\ tr.pc = "done"
    /\ Len(tr.resps) = NumTranslationConfigs
    /\ tr.resps[1].kind = "throw"
    /\ tr.resps[2].kind = "timeout"
    /\ tr.resps[3].kind = "badjson"
    /\ tr.resps[4].kind = "err"
    /\ tr.result.source \in {"table", "generic"}

----------------------------------------------------------------------------
(* Properties of the stored records (Spec), continued *)

\* every run is a request to the process route for upload u that has
\* answered 200
AllRoutePostsSucceeded(u) ==
    \A r \in Runs :
      /\ run[r].kind = "route"
      /\ run[r].uploadId = u
      /\ run[r].pc = "done"
      /\ run[r].outcome = "200"

\* C35: once all the requests to the process route for an upload have
\* finished successfully, whether they ran one after the other or
\* interleaved, the upload has exactly one translation and no two glyph
\* matches at the same position.
C35_NoDuplicateRecords ==
    \A u \in UploadIds(store) :
      AllRoutePostsSucceeded(u) =>
        /\ Cardinality({k \in DOMAIN store.translations :
                          store.translations[k].uploadId = u}) = 1
        /\ \A j, k \in DOMAIN store.matches :
             /\ store.matches[j].uploadId = u
             /\ store.matches[k].uploadId = u
             /\ store.matches[j].position = store.matches[k].position
             => j = k

----------------------------------------------------------------------------
(* Properties of the batch response (SpecBatch), continued *)

\* the entries of the response that name upload u
EntriesOf(u) == {k \in DOMAIN drv.results : drv.results[k].uploadId = u}

\* C36: the response of the batch driver holds exactly one entry per upload
\* fetched, in both modes and whatever runs fail; processed + failed is the
\* number of uploads fetched; and the failed entry of a rejected run names
\* the upload of that run.
C36_OneEntryPerUpload ==
    drv.pc = "done" /\ drv.status = 200 =>
      /\ Len(drv.results) = Len(drv.uploads)
      /\ \A k \in DOMAIN drv.uploads : Cardinality(EntriesOf(drv.uploads[k])) = 1
      /\ drv.processed + drv.failed = Len(drv.uploads)
      /\ drv.failed = Cardinality({u \in Runs : run[u].outcome = "rejected"})
      /\ \A k \in DOMAIN drv.results :
           drv.results[k].status = "failed" =>
             /\ drv.results[k].uploadId \in Runs
             /\ run[drv.results[k].uploadId].outcome = "rejected"

\* a parallel request for three uploads in chunks of two, the second run
\* rejected
C36_Witness ==
    /\ drv.pc = "done"
    /\ drv.status = 200
    /\ drv.parallel
    /\ drv.maxConcurrent = 2
    /\ Len(drv.uploads) = 3
    /\ drv.results[2].status = "failed"
    /\ drv.results[2].uploadId = 2
    /\ drv.processed = 2

----------------------------------------------------------------------------
(* Properties of the partition loop (SpecPartition) *)

RECURSIVE Concat(_)
\* the chunks put end to end
Concat(chunks) ==
    IF chunks = <<>> THEN <<>> ELSE Head(chunks) \o Concat(Tail(chunks))

\* C37: for every non-empty list of uploads and every integer maxConcurrent
\* of the request, the partition loop terminates with chunks that together
\* hold each upload exactly once, each chunk holding between 1 and
\* maxConcurrent uploads: every turn of the loop adds such a chunk, the
\* chunks so far are a prefix of the uploads, and the loop has not run for
\* more turns than there are uploads.
C37_PartitionTerminates ==
    drv.pc \in {"partition", "chunk"} =>
      /\ Len(drv.batches) <= Len(drv.uploads)
      /\ \A k \in DOMAIN drv.batches :
           /\ Len(drv.batches[k]) >= 1
           /\ Len(drv.batches[k]) <= drv.maxConcurrent
      /\ Concat(drv.batches) = SubSeq(drv.uploads, 1, Len(Concat(drv.batches)))
      /\ drv.pc = "chunk" => Concat(drv.batches) = drv.uploads

----------------------------------------------------------------------------
(* Properties of processUpload on a completed upload (SpecVersions) *)

\* run r is in processUpload and has found, or is about to find, its upload
\* COMPLETED
OnCompletedPath(r) ==
    \/ run[r].pc \in {"b_count", "b_versionCompleted"}
    \/ /\ run[r].pc = "b_find"
       /\ store.uploads[run[r].uploadId].status = "COMPLETED"

\* one of the stored glyph matches that the run read is damaged
SomeStoredMatchFlagged(r) ==
    \E k \in DOMAIN run[r].seen :
      NeedsReconstruction(run[r].seen[k].symbol, run[r].seen[k].confidence,
                          run[r].seen[k].boundingBox)

\* C38: for an upload that is already COMPLETED, processUpload runs neither
\* OCR nor translation nor matching and leaves the status, the glyph
\* matches, the translations and the Glyph table as they are; its only
\* write is one new ReconstructionVersion, made only with reconstruction
\* enabled and a stored glyph match flagged by needsReconstruction.
C38_CompletedUploadUntouched ==
    [][\A r \in Runs :
         OnCompletedPath(r) /\ run'[r] # run[r] =>
           /\ run'[r].pc \in {"b_count", "b_versionCompleted", "done"}
           /\ run'[r].stages \in {<<>>, <<"reconstruction">>}
           /\ run'[r].writes = <<>>
           /\ store'.uploads = store.uploads
           /\ store'.matches = store.matches
           /\ store'.translations = store.translations
           /\ store'.glyphs = store.glyphs
           /\ store'.scripts = store.scripts
           /\ \/ store'.versions = store.versions
              \/ /\ Len(store'.versions) = Len(store.versions) + 1
                 /\ SubSeq(store'.versions, 1, Len(store.versions)) = store.versions
                 /\ store'.versions[Len(store'.versions)].uploadId = run[r].uploadId
                 /\ run[r].enable
                 /\ SomeStoredMatchFlagged(r)
                 /\ run'[r].pc = "done"]_vars

\* a call on the completed upload has ended with a second version stored
\* for it, its matches and translation still in place
C38_Witness ==
    /\ \E r \in Runs : /\ run[r].pc = "done"
                       /\ run[r].uploadId = 1
                       /\ run[r].stages = <<"reconstruction">>
                       /\ run[r].reconstructions = 2
    /\ Len(SelectSeq(store.versions, LAMBDA v : v.uploadId = 1)) = 2
    /\ store.uploads[1].status = "COMPLETED"
    /\ Len(SelectSeq(store.matches, LAMBDA m : m.uploadId = 1)) = 2
    /\ Len(SelectSeq(store.translations, LAMBDA t : t.uploadId = 1)) = 1

----------------------------------------------------------------------------
(* Properties that compare the batch driver with the process route (Spec) *)

\* run r is a call of processUpload that went through the pipeline and
\* returned success
BatchProcessed(r) ==
    /\ run[r].kind = "batch"
    /\ run[r].pc = "done"
    /\ run[r].outcome = "fulfilled"
    /\ run[r].stages # <<>>
    /\ run[r].stages[1] = "ocr"

\* C39: a batch run that processes an upload not yet completed leaves, like
\* the process route, a translation record for that upload.
C39_BatchLeavesTranslation ==
    \A r \in Runs :
      BatchProcessed(r) =>
        \E k \in DOMAIN store.translations :
          store.translations[k].uploadId = run[r].uploadId

\* C40: the batch driver and the process route persist the same glyph
\* matches: the boundingBox of every stored match is the serialized box
\* {x, y, width, height} of the glyph at the stored position.
C40_SameGlyphMatches ==
    \A k \in DOMAIN store.matches :
      /\ JsonParse(store.matches[k].boundingBox).type = "object"
      /\ JsonParse(store.matches[k].boundingBox).box
           = BoundingBox(store.matches[k].position)

====
